---------------------------- MODULE Spec2Model ----------------------------
(***************************************************************************)
(* Elephant Backup: the snapshot model (SnapshotList.findLatest, the       *)
(* generation buckets), the retention purge of ZfsFilesystem, the backup   *)
(* task of BackupSubCommand and the Process pipeline with its dry-run      *)
(* path, over a model of the ZFS engine the commands are sent to.          *)
(*                                                                         *)
(* Time is counted in seconds.  A Date is the number of seconds since an   *)
(* arbitrary origin; setDate(getDate() + n) adds n days of 24 hours and    *)
(* setHours(getHours() - n) subtracts n hours (no daylight-saving shift).  *)
(***************************************************************************)
EXTENDS Integers, Sequences, FiniteSets, TLC

(***************************************************************************)
(* Configure.js                                                            *)
(***************************************************************************)
PREFIX_SNAPSHOT == "elephant"

SNAPSHOT_KEEP_WEEKS == 104

SNAPSHOT_KEEP_DAYS == 30

SNAPSHOT_KEEP_HOURS == 24

SecondsPerHour == 60 * 60

SecondsPerDay == 24 * SecondsPerHour

(***************************************************************************)
(* Bounds of the model.                                                    *)
(***************************************************************************)
\* longest snapshot list enumerated element by element
MaxLen == 3

\* how many snapshots beyond SNAPSHOT_KEEP_WEEKS the long lists reach
MaxExcess == 2

\* how many times purgeSnapshots is applied to one list
MaxPurgeRuns == 2

\* how many program runs are launched one after the other
MaxRuns == 2

\* how many times the clock is advanced between runs
MaxTicks == 1

\* how many snapshots earlier runs left on a primary
MaxPrior == 2

\* how many processes the longest chain of SpecPipe pipes
MaxStages == 2

\* how many chunks of data a process of SpecPipe writes to its stdout
MaxChunks == 1

\* how many times the files of pool1 change in SpecDiff
MaxChanges == 1

\* how many processes of the program use the log at a time in SpecLog
NumProcesses == 2

\* how many times a process of SpecLog starts
MaxStarts == 2

\* how many callers share the lock in SpecLock
NumCallers == 3

\* how many times a caller calls acquire in SpecLock
MaxAcquires == 2

(***************************************************************************)
(* Snapshot names.  A name is <prefix>-<YYYY-MM-DD>-<HHMMSS>; the model    *)
(* keeps the prefix and, when the rest has the shape of a date and a time, *)
(* the pair <<day number, second of the day>>.  A name whose rest has      *)
(* another shape has the empty stamp.                                      *)
(***************************************************************************)
Null == [prefix |-> "", stamp |-> <<>>]

SnapshotName(prefix, date) == [prefix |-> prefix, stamp |-> <<date \div SecondsPerDay, date % SecondsPerDay>>]

\* Snapshot.#getNowDate and Snapshot.createSnapshot: the name of the local time
createSnapshot(date) == SnapshotName(PREFIX_SNAPSHOT, date)

\* a plausible slip: the regular expression checks the date part only
isCorrectedName_AnyPrefix(snapshotName) == Len(snapshotName.stamp) = 2

\* Snapshot.isCorrectedName: the regular expression ^elephant-\d{4}-\d{2}-\d{2}-\d{6}$
isCorrectedName(snapshotName) == snapshotName.prefix = PREFIX_SNAPSHOT /\ Len(snapshotName.stamp) = 2

\* Snapshot.getDate: the date the name spells
getDate(snapshotName) == snapshotName.stamp[1] * SecondsPerDay + snapshotName.stamp[2]

(***************************************************************************)
(* Snapshot names character by character, as the regular expression of     *)
(* Snapshot reads them.  A name is a sequence of characters, a character   *)
(* is a string of length one ("LF" stands for the line feed and "E3" for   *)
(* a digit outside ASCII, which \d does not match).                        *)
(***************************************************************************)
\* Configure.PREFIX_SNAPSHOT, character by character
PrefixCharacters == <<"e", "l", "e", "p", "h", "a", "n", "t">>

\* what \d matches in a regular expression without flags
AsciiDigits == {"0", "1", "2", "3", "4", "5", "6", "7", "8", "9"}

\* an item of a regular expression: a literal character
Literal(char) == [class |-> "literal", char |-> char]

\* an item of a regular expression: \d
DigitClass == [class |-> "\\d", char |-> ""]

\* item{count}
Repeat(item, count) == [i \in 1..count |-> item]

\* Snapshot.#snapshotRegExp between ^ and $: elephant\-\d{4}\-\d{2}\-\d{2}\-\d{6}
snapshotRegExp == [i \in 1..Len(PrefixCharacters) |-> Literal(PrefixCharacters[i])]
                  \o <<Literal("-")>> \o Repeat(DigitClass, 4)
                  \o <<Literal("-")>> \o Repeat(DigitClass, 2)
                  \o <<Literal("-")>> \o Repeat(DigitClass, 2)
                  \o <<Literal("-")>> \o Repeat(DigitClass, 6)

\* whether an item matches a character
matches(item, char) == IF item.class = "literal" THEN char = item.char ELSE char \in AsciiDigits

\* a plausible slip: the regular expression without the $ at its end
test_Unanchored(regexp, text) == /\ Len(text) >= Len(regexp)
                                 /\ \A i \in 1..Len(regexp) : matches(regexp[i], text[i])

\* RegExp.test of ^regexp$: the whole text, item by item
test(regexp, text) == /\ Len(text) = Len(regexp)
                      /\ \A i \in 1..Len(regexp) : matches(regexp[i], text[i])

\* Snapshot.isCorrectedName on the characters of a name
isCorrectedNameOf(snapshotName) == test(snapshotRegExp, snapshotName)

\* new Snapshot(name): throws, or the instance with its #name
Snapshot(name) == IF ~isCorrectedNameOf(name)
                  THEN [thrown |-> TRUE, instances |-> {}]
                  ELSE [thrown |-> FALSE, instances |-> {[name |-> name]}]

\* get name() of an instance
nameOf(instance) == instance.name

Range(s) == {s[i] : i \in 1..Len(s)}

\* the element of a one-element set
Only(S) == CHOOSE x \in S : TRUE

(***************************************************************************)
(* SnapshotList                                                            *)
(***************************************************************************)
\* a plausible slip: the first of the common snapshots, as the doc comment says
findLatest_First(mine, theirs) == LET common == SelectSeq(mine, LAMBDA s : s \in Range(theirs)) IN IF Len(common) > 0 THEN common[1] ELSE Null

findLatest(mine, theirs) == LET common == SelectSeq(mine, LAMBDA s : s \in Range(theirs)) IN IF Len(common) > 0 THEN common[Len(common)] ELSE Null

\* a plausible slip: the other end of the list
getEarliest_Newest(snapshots) == IF Len(snapshots) > 0 THEN snapshots[Len(snapshots)] ELSE Null

getEarliest(snapshots) == IF Len(snapshots) > 0 THEN snapshots[1] ELSE Null

\* a plausible slip: the index is one too low
getLatest_Stale(snapshots) == IF Len(snapshots) > 1 THEN snapshots[Len(snapshots) - 1] ELSE getEarliest(snapshots)

getLatest(snapshots) == IF Len(snapshots) > 0 THEN snapshots[Len(snapshots)] ELSE Null


\* a plausible slip: >= where the code compares with >
generationOf_Inclusive(snapshotName, date) == LET hourLimit == date - SNAPSHOT_KEEP_HOURS * SecondsPerHour
                                                  dayLimit == date - SNAPSHOT_KEEP_DAYS * SecondsPerDay
                                                  snapshotTime == getDate(snapshotName)
                                              IN  IF snapshotTime >= hourLimit THEN "young"
                                                  ELSE IF snapshotTime >= dayLimit THEN "middle"
                                                  ELSE "old"

\* SnapshotList.getSnapshotsByGenerations bucket of one name: young, middle or old
generationOf(snapshotName, date) == LET hourLimit == date - SNAPSHOT_KEEP_HOURS * SecondsPerHour
                                        dayLimit == date - SNAPSHOT_KEEP_DAYS * SecondsPerDay
                                        snapshotTime == getDate(snapshotName)
                                    IN  IF snapshotTime > hourLimit THEN "young"
                                        ELSE IF snapshotTime > dayLimit THEN "middle"
                                        ELSE "old"

\* SnapshotList.getSnapshotsByGenerations, with `date` the value of new Date()
getSnapshotsByGenerations(snapshots, date) == LET bucket(g) == SelectSeq(snapshots, LAMBDA s : isCorrectedName(s) /\ generationOf(s, date) = g)
                                              IN  [youngSnapshots |-> bucket("young"), middleSnapshots |-> bucket("middle"), oldSnapshots |-> bucket("old")]

(***************************************************************************)
(* ZfsFilesystem: the three passes of purgeSnapshots, each as the list of  *)
(* the snapshots it passes to ZfsUtilities.destroySnapshot, in order.      *)
(***************************************************************************)
\* new Date(-8640000000000000): before the date of every name
MinimumDate == -1

\* a plausible slip: > where the code compares with >=
destroySnapshotStep_Strict(snapshotName, offset, earliestSnapshotDate) ==
    IF ~isCorrectedName(snapshotName) THEN [earliestSnapshotDate |-> earliestSnapshotDate, destroy |-> FALSE]
    ELSE IF getDate(snapshotName) > earliestSnapshotDate
         THEN [earliestSnapshotDate |-> getDate(snapshotName) + offset * SecondsPerDay, destroy |-> FALSE]
         ELSE [earliestSnapshotDate |-> earliestSnapshotDate, destroy |-> TRUE]

\* one iteration of the loop of ZfsFilesystem.#destroySnapshot: the date of the
\* next snapshot to keep after it, and whether it destroys the snapshot
destroySnapshotStep(snapshotName, offset, earliestSnapshotDate) ==
    IF ~isCorrectedName(snapshotName) THEN [earliestSnapshotDate |-> earliestSnapshotDate, destroy |-> FALSE]
    ELSE IF getDate(snapshotName) >= earliestSnapshotDate
         THEN [earliestSnapshotDate |-> getDate(snapshotName) + offset * SecondsPerDay, destroy |-> FALSE]
         ELSE [earliestSnapshotDate |-> earliestSnapshotDate, destroy |-> TRUE]

RECURSIVE destroySnapshotLoop(_, _, _, _, _)
\* the iterations from..to of that loop, in order: the first half, then the
\* second half from the date the first half leaves (head and tail are bound as
\* the elements of one-element sets, so that each is evaluated once)
destroySnapshotLoop(snapshots, offset, from, to, earliestSnapshotDate) ==
    IF from > to THEN [earliestSnapshotDate |-> earliestSnapshotDate, destroyed |-> <<>>]
    ELSE IF from = to
         THEN Only({[earliestSnapshotDate |-> step.earliestSnapshotDate, destroyed |-> IF step.destroy THEN <<snapshots[from]>> ELSE <<>>] :
                        step \in {destroySnapshotStep(snapshots[from], offset, earliestSnapshotDate)}})
         ELSE Only({Only({[earliestSnapshotDate |-> tail.earliestSnapshotDate, destroyed |-> head.destroyed \o tail.destroyed] :
                              tail \in {destroySnapshotLoop(snapshots, offset, (from + to) \div 2 + 1, to, head.earliestSnapshotDate)}}) :
                        head \in {destroySnapshotLoop(snapshots, offset, from, (from + to) \div 2, earliestSnapshotDate)}})

\* ZfsFilesystem.#destroySnapshot: the snapshots it destroys
destroySnapshot(snapshots, offset) == destroySnapshotLoop(snapshots, offset, 1, Len(snapshots), MinimumDate).destroyed

\* ZfsFilesystem.#destroySnapshotNumber: snapshots[number] of the code is snapshots[number + 1] here
destroySnapshotNumber(snapshots, number) == LET destroyNumber == Len(snapshots) - number
                                            IN  IF destroyNumber > 0 THEN [counter \in 1..destroyNumber |-> snapshots[number + 1]] ELSE <<>>

\* a plausible slip: the young snapshots are thinned out by the day as well
purgeCalls_YoungToo(snapshots, date) == LET snapshotsByGeneration == getSnapshotsByGenerations(snapshots, date)
                                            tag(pass, names) == [i \in 1..Len(names) |-> [pass |-> pass, snapshot |-> names[i]]]
                                        IN  tag(1, destroySnapshot(snapshotsByGeneration.youngSnapshots, 1))
                                            \o tag(1, destroySnapshot(snapshotsByGeneration.middleSnapshots, 1))
                                            \o tag(2, destroySnapshot(snapshotsByGeneration.oldSnapshots, 7))
                                            \o tag(3, destroySnapshotNumber(snapshotsByGeneration.oldSnapshots, SNAPSHOT_KEEP_WEEKS))

\* the destroy calls of ZfsFilesystem.purgeSnapshots on a listing, each with its pass
purgeCalls(snapshots, date) == LET snapshotsByGeneration == getSnapshotsByGenerations(snapshots, date)
                                   tag(pass, names) == [i \in 1..Len(names) |-> [pass |-> pass, snapshot |-> names[i]]]
                               IN  tag(1, destroySnapshot(snapshotsByGeneration.middleSnapshots, 1))
                                   \o tag(2, destroySnapshot(snapshotsByGeneration.oldSnapshots, 7))
                                   \o tag(3, destroySnapshotNumber(snapshotsByGeneration.oldSnapshots, SNAPSHOT_KEEP_WEEKS))

(***************************************************************************)
(* Process: a command line, and the chain of the processes piped to it.    *)
(* A chain is the sequence of its command lines, the head first.           *)
(***************************************************************************)
CommandLine(cmd, fs, first, last, n) == [cmd |-> cmd, fs |-> fs, first |-> first, last |-> last, n |-> n]

\* a slip an earlier class of the repository has: the promise is resolved
\* whatever the code and the signal are
closeHandler_Resolves(code, signal) == "resolve"

\* the handler of 'close' in Process.#createPromise: it throws on a code
\* other than 0 and on a signal, and resolves the promise otherwise
closeHandler(code, signal) == IF code # 0 \/ signal # "" THEN "throw" ELSE "resolve"

\* the await of a spawn ends: no process was spawned, or the handler of
\* 'close' resolved the promise of the command, which left with code 0 when
\* the engine did what it was told and with code 1 when it refused
resolves(out) == closeHandler(IF out.ok THEN 0 ELSE 1, "") = "resolve"

\* Process.spawnAsync: every process of the chain is spawned
spawnAsync(chain) == [spawned |-> chain, walked |-> Len(chain), dry |-> FALSE]

RECURSIVE spawnDryRunAsync(_)
\* Process.#spawnDryRunAsync: walks to the piped process, spawns nothing
spawnDryRunAsync(chain) == IF Len(chain) > 1
                           THEN [spawnDryRunAsync(Tail(chain)) EXCEPT !.walked = @ + 1]
                           ELSE [spawned |-> <<>>, walked |-> 1, dry |-> TRUE]

\* a plausible slip: the dry-run option is not looked at
spawnIfNoDryRunAsync_Always(chain, dryRun) == spawnAsync(chain)

\* Process.spawnIfNoDryRunAsync
spawnIfNoDryRunAsync(chain, dryRun) == IF dryRun THEN spawnDryRunAsync(chain) ELSE spawnAsync(chain)

(***************************************************************************)
(* ZfsUtilities: the command lines.                                        *)
(***************************************************************************)
\* zfs snapshot -r <filesystem>@<snapshot>
takeSnapshotCommand(snapshot, filesystem) == <<CommandLine("snapshot", filesystem, snapshot, Null, FALSE)>>

\* zfs destroy -r <filesystem>@<snapshot>
destroySnapshotCommand(snapshot, filesystem) == <<CommandLine("destroy", filesystem, snapshot, Null, FALSE)>>

\* zfs create -p <dataset>
createZfsDatasetCommand(dataset) == <<CommandLine("create", dataset, Null, Null, FALSE)>>

\* zfs send -Rw -n -v [-I] <first> [<last>]
estimateSendSizeCommand(filesystem, first, last) == <<CommandLine("estimate", filesystem, first, last, TRUE)>>

\* a plausible slip: the last snapshot is left out of the send command
sendAndReceiveCommand_FirstOnly(archive, filesystem, first, last, dryRun) == <<CommandLine("send", filesystem, first, Null, dryRun), CommandLine("recv", archive, Null, Null, FALSE)>>

\* zfs send -Rw [-n] [-I] <first> [<last>] piped to zfs recv -F -d -x mountpoint <archive>
sendAndReceiveCommand(archive, filesystem, first, last, dryRun) == <<CommandLine("send", filesystem, first, last, dryRun), CommandLine("recv", archive, Null, Null, FALSE)>>

\* zfs list -H -o name -t filesystem
filesystemListCommand == <<CommandLine("listfs", <<>>, Null, Null, FALSE)>>

\* zfs list -H -o name -t filesystem -r <filesystem>
filesystemListBelowCommand(filesystem) == <<CommandLine("listfs", filesystem, Null, Null, FALSE)>>

\* zfs get -H -o value [-r] <property> <filesystem>
getValuesCommand(filesystem, property, recursive) == <<CommandLine(property, filesystem, Null, Null, recursive)>>

\* zfs list -H -s creation -o name -t snapshot <filesystem>
snapshotListCommand(filesystem) == <<CommandLine("listsnap", filesystem, Null, Null, FALSE)>>

(***************************************************************************)
(* The ZFS engine, as far as the commands above use it.  A filesystem name  *)
(* is the sequence of its path elements.  The engine keeps, for every       *)
(* filesystem, its snapshots in the order of their creation.                *)
(***************************************************************************)
Pools == {<<"pool1">>, <<"pool2">>}

ArchiveRoot == <<"archive">>

\* a name no filesystem of the machine has
Ghost == <<"ghost">>

\* a dataset below the mirror of pool1 that no primary holds, made by hand
Old == ArchiveRoot \o <<"pool1", "old">>

AllFilesystems == Pools \cup {ArchiveRoot} \cup {ArchiveRoot \o p : p \in Pools} \cup {Old}

Mirror(primary) == ArchiveRoot \o primary

\* the clock at the beginning: late enough for SNAPSHOT_KEEP_WEEKS weeks to lie behind
Epoch == 1000 * SecondsPerDay

Age(seconds) == Epoch - seconds

\* a snapshot of a mirror that no primary holds: taken by hand three days ago
Stray == SnapshotName("manual", Age(3 * SecondsPerDay))

IndexOf(s, x) == CHOOSE i \in 1..Len(s) : s[i] = x

\* the filesystem is `base` or a dataset below it
IsBelow(filesystem, base) == Len(base) <= Len(filesystem) /\ SubSeq(filesystem, 1, Len(base)) = base

\* what one spawned chain does to the engine: the set of the possible outcomes.
\* A send piped to a recv may fail for reasons outside the model (I/O,
\* space), so the failure is always among its outcomes.
ZfsOutcomes(spawned, fss, snaps) ==
    LET same(ok, out) == [ok |-> ok, filesystems |-> fss, snapshots |-> snaps, stdout |-> out]
        c == spawned[1]
    IN  IF spawned = <<>> THEN {same(TRUE, <<>>)}
        ELSE CASE c.cmd = "listfs" -> IF c.fs = <<>> THEN {same(TRUE, fss)}
                                      ELSE IF c.fs \in fss THEN {same(TRUE, {f \in fss : IsBelow(f, c.fs)})}
                                      ELSE {same(FALSE, <<>>)}
               [] c.cmd = "listsnap" -> IF c.fs \in fss THEN {same(TRUE, snaps[c.fs])} ELSE {same(FALSE, <<>>)}
               [] c.cmd = "create" -> {[ok |-> TRUE, filesystems |-> fss \cup {c.fs}, snapshots |-> snaps, stdout |-> <<>>]}
               [] c.cmd = "snapshot" -> IF c.fs \in fss /\ c.first \notin Range(snaps[c.fs])
                                        THEN {[ok |-> TRUE, filesystems |-> fss, snapshots |-> [snaps EXCEPT ![c.fs] = Append(@, c.first)], stdout |-> <<>>]}
                                        ELSE {same(FALSE, <<>>)}
               [] c.cmd = "destroy" -> IF c.fs \in fss /\ c.first \in Range(snaps[c.fs])
                                       THEN {[ok |-> TRUE, filesystems |-> fss, snapshots |-> [snaps EXCEPT ![c.fs] = SelectSeq(@, LAMBDA x : x # c.first)], stdout |-> <<>>]}
                                       ELSE {same(FALSE, <<>>)}
               [] c.cmd = "estimate" -> IF c.fs \in fss /\ c.first \in Range(snaps[c.fs]) /\ (c.last = Null \/ c.last \in Range(snaps[c.fs]))
                                        THEN {same(TRUE, <<"size">>)}
                                        ELSE {same(FALSE, <<>>)}
               [] c.cmd = "send" ->
                    LET src == snaps[c.fs]
                        dst == spawned[2].fs
                        sendable == /\ c.fs \in fss
                                    /\ c.first \in Range(src)
                                    /\ c.last # Null => (c.last \in Range(src) /\ IndexOf(src, c.first) < IndexOf(src, c.last))
                        \* -R: a full stream holds every snapshot up to first, an
                        \* incremental one (-I) those after first up to last
                        stream == IF c.last = Null THEN SubSeq(src, 1, IndexOf(src, c.first))
                                  ELSE SubSeq(src, IndexOf(src, c.first) + 1, IndexOf(src, c.last))
                        \* recv -F of a replication stream destroys the datasets below the
                        \* target that the sending side does not hold
                        gone == {f \in fss : IsBelow(f, dst) /\ f # dst /\ c.fs \o SubSeq(f, Len(dst) + 1, Len(f)) \notin fss}
                        received(list) == [ok |-> TRUE, filesystems |-> (fss \ gone) \cup {dst},
                                           snapshots |-> [f \in DOMAIN snaps |-> IF f = dst THEN list ELSE IF f \in gone THEN <<>> ELSE snaps[f]],
                                           stdout |-> <<>>]
                    IN  {same(FALSE, <<>>)} \cup
                        IF ~sendable \/ c.n \/ Len(spawned) < 2 THEN {}
                        ELSE IF c.last = Null
                             \* a full stream into a filesystem that holds snapshots: recv -F
                             \* either refuses or overwrites
                             THEN {received(stream)}
                             ELSE IF dst \in fss /\ c.first \in Range(snaps[dst])
                                  THEN {received(SubSeq(snaps[dst], 1, IndexOf(snaps[dst], c.first)) \o stream)}
                                  ELSE {}
               [] OTHER -> {same(FALSE, <<>>)}

(***************************************************************************)
(* The files of the filesystems.  A path is the sequence of its elements;  *)
(* a filesystem is mounted at the path of its name.  A directory tree maps *)
(* the paths below the mount point to "dir" or, for a regular file, to the *)
(* content of the file.                                                    *)
(***************************************************************************)
\* the names of the entries, in the order readdir lists them
EntryNames == <<"old", "w", "x", "y">>

\* the contents a regular file may have
Contents == {"a", "b"}

\* the paths below a mount point
TreePaths == {<<"w">>, <<"x">>, <<"x", "y">>}

\* the directory trees: the parent of an entry is a directory (w, when there,
\* is a file of content "a", and y a directory or a file of content "a")
Trees == {t \in UNION {[D -> Contents \cup {"dir"}] : D \in SUBSET TreePaths} :
             /\ <<"x", "y">> \in DOMAIN t => (<<"x">> \in DOMAIN t /\ t[<<"x">>] = "dir")
             /\ <<"w">> \in DOMAIN t => t[<<"w">>] = "a"
             /\ <<"x", "y">> \in DOMAIN t => t[<<"x", "y">>] # "b"}

\* the tree of a filesystem without files
EmptyTree == [p \in {} |-> "dir"]

\* the files of pool2, which stay as they are
Pool2Tree == [p \in {<<"w">>, <<"x">>} |-> IF p = <<"w">> THEN "a" ELSE "dir"]

\* the files of a mirror as its own snapshot left them
StrayTree == [p \in {<<"x">>} |-> "b"]

\* fs.existsSync: the path is a mount point or an entry of the disk
existsSync(disk, path) == path \in DOMAIN disk

\* Dirent.isDirectory, Stats.isDirectory
isDirectory(disk, path) == disk[path] = "dir"

\* fsPromises.readdir: the names of the entries of a directory
readdir(disk, directory) == SelectSeq(EntryNames, LAMBDA name : Append(directory, name) \in DOMAIN disk)

\* Compare.#digest: the SHA-512 digest of the content of a file
digest(disk, fileName) == <<"sha512", disk[fileName]>>

\* a plausible slip: the result of Buffer.compare is taken for the answer
equal_Inverted(disk, one, another) == digest(disk, one) # digest(disk, another)

\* Compare.#equal: the digests of the two files are the same
equal(disk, one, another) == digest(disk, one) = digest(disk, another)

\* a line logger.print writes for a path
Line(mark, path) == [text |-> mark, name |-> path]

\* no call of #printDifference
NoJob == [files |-> <<>>, one |-> <<>>, another |-> <<>>]

\* a part of Compare.compareDirectory between two awaits: the lines it prints,
\* the zfs commands run before it, and the #printDifference call it makes
\* without awaiting it
Step(prints, job) == [prints |-> prints, job |-> job, issues |-> <<>>]

RECURSIVE compareDirectory(_, _, _, _)
\* Compare.compareDirectory: the parts of the walk of the directory `one`, in
\* order.  A directory of `one` that `another` does not hold is printed as
\* appended and entered all the same; when `another` does not exist the files
\* are printed as appended, else #printDifference is called
compareDirectory(disk, one, another, excludePaths) ==
    IF one \in excludePaths THEN <<>>
    ELSE LET entries == readdir(disk, one)
             directories == SelectSeq(entries, LAMBDA e : isDirectory(disk, Append(one, e)))
             files == SelectSeq(entries, LAMBDA e : ~isDirectory(disk, Append(one, e)))
             enter(directory) ==
                 LET onePath == Append(one, directory)
                     anotherPath == Append(another, directory)
                 IN  <<Step(IF ~existsSync(disk, anotherPath) THEN <<Line(" + ", Append(onePath, "/"))>> ELSE <<>>, NoJob)>>
                     \o compareDirectory(disk, onePath, anotherPath, excludePaths)
             \* a directory holds at most two directories here
             entered == IF Len(directories) = 0 THEN <<>>
                        ELSE IF Len(directories) = 1 THEN enter(directories[1])
                        ELSE enter(directories[1]) \o enter(directories[2])
         IN  entered \o
             (IF ~existsSync(disk, another)
              THEN <<Step([i \in 1..Len(files) |-> Line(" + ", Append(one, files[i]))], NoJob)>>
              ELSE <<Step(<<>>, [files |-> files, one |-> one, another |-> another])>>)

\* the lines of one file in the second loop of Compare.#printDifference
differenceOf(disk, onePath, anotherPath) ==
    IF ~existsSync(disk, anotherPath) THEN <<Line(" + ", onePath)>>
    ELSE IF isDirectory(disk, anotherPath) THEN <<Line(" M ", onePath)>>
    ELSE IF equal(disk, onePath, anotherPath) THEN <<>>
    ELSE <<Line(" M ", onePath)>>

RECURSIVE flatten(_)
flatten(lines) == IF lines = <<>> THEN <<>> ELSE Head(lines) \o flatten(Tail(lines))

\* Compare.#printDifference: readdir of `another` rejects when it is not a
\* directory; else the names of `another` that `one` does not hold are printed
\* as removed, then the files of `one` as appended or modified
printDifference(disk, files, one, another) ==
    IF ~isDirectory(disk, another) THEN [rejected |-> TRUE, prints |-> <<>>]
    ELSE LET anotherNames == readdir(disk, another)
             removed == SelectSeq(anotherNames, LAMBDA name : ~existsSync(disk, Append(one, name)))
         IN  [rejected |-> FALSE,
              prints |-> [i \in 1..Len(removed) |-> Line(" - ", Append(one, removed[i]))]
                         \o flatten([i \in 1..Len(files) |-> differenceOf(disk, Append(one, files[i]), Append(another, files[i]))])]

\* the files of a pool at the time `date`: the last change up to that time
contentAt(changes, date) ==
    LET upTo == {i \in 1..Len(changes) : changes[i].since <= date}
    IN  changes[CHOOSE i \in upTo : \A j \in upTo : j <= i].tree

\* the files of a filesystem: a pool holds its files as they are now; a mirror
\* is written by zfs recv -F alone, which leaves it with the files of the
\* latest snapshot it holds
treeOf(filesystem, snaps, files) ==
    IF filesystem \in Pools THEN files.trees[filesystem][Len(files.trees[filesystem])].tree
    ELSE IF filesystem \in {Mirror(p) : p \in Pools} /\ snaps[filesystem] # <<>>
         THEN LET latest == snaps[filesystem][Len(snaps[filesystem])]
                  primary == CHOOSE p \in Pools : Mirror(p) = filesystem
              IN  IF latest = Stray THEN StrayTree ELSE contentAt(files.trees[primary], getDate(latest))
         ELSE EmptyTree

\* the disk: the mount point of every filesystem is a directory, and the
\* files of the mounted filesystems are below their mount points
diskOf(fss, snaps, files) ==
    LET mounted == fss \ files.unmounted
        below == {<<f, p>> \in mounted \X TreePaths : p \in DOMAIN treeOf(f, snaps, files)}
    IN  [path \in fss \cup {e[1] \o e[2] : e \in below} |->
            IF path \in fss THEN "dir"
            ELSE LET e == CHOOSE e \in below : e[1] \o e[2] = path
                 IN  treeOf(e[1], snaps, files)[e[2]]]

RECURSIVE valuesOf(_, _, _)
\* the lines zfs get -r prints for `mounted`: yes or no for a filesystem, then
\* a "-" for each of its snapshots, then the same for the datasets below it
valuesOf(names, snaps, files) ==
    IF names = {} THEN <<>>
    ELSE LET f == CHOOSE g \in names : \A h \in names : ~(IsBelow(g, h) /\ g # h)
         IN  <<IF f \in files.unmounted THEN "no" ELSE "yes">>
             \o [i \in 1..Len(snaps[f]) |-> "-"]
             \o valuesOf(names \ {f}, snaps, files)

\* what zfs get answers, line by line: for `mounted`, the value of the
\* filesystem and, with -r, of its snapshots and of the datasets below it; for
\* `mountpoint`, the path of the name
ZfsValues(spawned, fss, snaps, files) ==
    LET c == spawned[1]
    IN  IF c.fs \notin fss THEN [ok |-> FALSE, stdout |-> <<>>]
        ELSE IF c.cmd = "mounted"
             THEN [ok |-> TRUE, stdout |-> IF c.n THEN valuesOf({g \in fss : IsBelow(g, c.fs)}, snaps, files)
                                           ELSE <<IF c.fs \in files.unmounted THEN "no" ELSE "yes">>]
             ELSE [ok |-> TRUE, stdout |-> <<c.fs>>]

(***************************************************************************)
(* The state: the engine and the clock, and one run of the program at a    *)
(* time (the runs of a machine follow each other).                         *)
(***************************************************************************)
VARIABLES
    filesystems,            \* the engine: the filesystems that exist
    snapshots,              \* the engine: the snapshots of each filesystem, by creation
    now,                    \* the clock, in seconds
    runs,                   \* how many runs were launched
    ticks,                  \* how many times the clock advanced
    option,                 \* CommandLine.getOption() of the run
    pc,                     \* where the run is
    snapshotNow,            \* Snapshot.#now, set when the module is loaded
    zfsFilesystemArray,     \* ZfsFilesystem.#zfsFilesystemArray
    initialized,            \* ZfsFilesystem.#initialized
    index,                  \* the position in option.arguments of the target at work
    newSnapshot,            \* #newSnapshot of the ZfsFilesystem of the target
    primarySnapshotList,    \* #backup: the list of the primary
    archiveSnapshotList,    \* #backup: the list of the archive
    latestOfCommonSnapshot, \* #backup: the latest of the common snapshots
    issued,                 \* the Process runs of this run, in order
    printed,                \* what logger.print and logger.error wrote in this run
    finished,               \* the targets whose task returned in this run
    atStart,                \* the engine's view of the target when its task began
    purged,                 \* the purgeSnapshots calls: listing, destroy calls, outcome
    previous,               \* the run before this one: subcommand, dry-run, finished targets
    pipeline,               \* one Process.spawnAsync call: the children of its chain and its promises
    storage,                \* the engine: the files of each pool as they changed, and the filesystems not mounted
    comparison,             \* the diff of a target: the parts of the walk to come, the #printDifference calls under way
    constructed,            \* the outcome of the last `new Snapshot(name)`
    logging,                \* the reference file of the log and the processes that use it
    lock                    \* one Lock and its callers

vars == <<filesystems, snapshots, now, runs, ticks, option, pc, snapshotNow, zfsFilesystemArray, initialized, index, newSnapshot, primarySnapshotList, archiveSnapshotList, latestOfCommonSnapshot, issued, printed, finished, atStart, purged, previous, pipeline, constructed, logging, lock, storage, comparison>>

engineVars == <<filesystems, snapshots>>

backupVars == <<primarySnapshotList, archiveSnapshotList, latestOfCommonSnapshot>>

NoOption == [subCommand |-> "", dryRun |-> FALSE, archive |-> <<>>, arguments |-> <<>>]

NoStart == [primary |-> <<>>, snapshots |-> <<>>, mirror |-> FALSE, archive |-> <<>>]

NoRun == [subCommand |-> "", dryRun |-> FALSE, finished |-> <<>>, pc |-> "none", arguments |-> <<>>, snapshotNow |-> Null, transfers |-> <<>>, upToDate |-> {}]

\* no spawnAsync call is followed stage by stage
NoPipeline == [phase |-> "none"]

\* the pools hold no file, and every filesystem is mounted
NoFiles == [trees |-> [p \in Pools |-> <<[since |-> 0, tree |-> EmptyTree]>>], unmounted |-> {}]

\* no diff is under way
NoComparison == [walk |-> <<>>, jobs |-> {}]

\* no Snapshot was constructed
NoSnapshot == [called |-> FALSE, name |-> <<>>, thrown |-> FALSE, instances |-> {}, read |-> {}]

\* no process uses the log
NoLogging == [reference |-> [exist |-> FALSE, count |-> 0], logFile |-> FALSE, process |-> <<>>]

\* no Lock was made
NoLock == [acquired |-> FALSE, listeners |-> <<>>, caller |-> <<>>, timers |-> <<>>, calls |-> 0, resolutions |-> 0]

\* the transfers a run called for, spawned or not: the task, the primary and the snapshots
transfersOf(issues) ==
    LET sends == SelectSeq(issues, LAMBDA issue : issue.chain[1].cmd = "send")
    IN  [j \in 1..Len(sends) |-> [target |-> sends[j].target, fs |-> sends[j].chain[1].fs, first |-> sends[j].chain[1].first, last |-> sends[j].chain[1].last]]

\* the archives a run found up to date
upToDateOf(prints) == {prints[i].name : i \in {j \in 1..Len(prints) : prints[j].text = "Archive is Up-To-Date"}}

\* the program's variables before any run
NotRunning == /\ runs = 0
              /\ ticks = 0
              /\ option = NoOption
              /\ pc = "none"
              /\ snapshotNow = Null
              /\ zfsFilesystemArray = {}
              /\ initialized = FALSE
              /\ index = 0
              /\ newSnapshot = Null
              /\ primarySnapshotList = <<>>
              /\ archiveSnapshotList = <<>>
              /\ latestOfCommonSnapshot = Null
              /\ issued = <<>>
              /\ printed = <<>>
              /\ finished = <<>>
              /\ atStart = NoStart
              /\ purged = <<>>
              /\ previous = NoRun
              /\ pipeline = NoPipeline
              /\ comparison = NoComparison
              /\ constructed = NoSnapshot
              /\ logging = NoLogging
              /\ lock = NoLock

(***************************************************************************)
(* The steps shared by the subcommands.                                    *)
(***************************************************************************)
\* the record of one Process run in `issued`: the chain, what was spawned of
\* it, the stages walked, the result the caller gets, and the position in
\* option.arguments of the target at work
Issue(chain, run, out) == [chain |-> chain, spawned |-> run.spawned, walked |-> run.walked, dry |-> run.dry, ok |-> out.ok, stdout |-> out.stdout, target |-> index]

\* the outcome of a chain whose outcome the engine's state decides
TheOutcome(spawned, fss, snaps) == CHOOSE o \in ZfsOutcomes(spawned, fss, snaps) : TRUE

\* a plausible slip: the new snapshot is pushed without the dry-run option too
getSnapshotList_AlwaysPushes(filesystem, takenSnapshot, dryRun, fss, snaps) ==
    LET chain == snapshotListCommand(filesystem)
        run == spawnAsync(chain)
        out == TheOutcome(run.spawned, fss, snaps)
    IN  [ok |-> resolves(out),
         issue |-> Issue(chain, run, out),
         list |-> IF ~resolves(out) THEN <<>> ELSE IF takenSnapshot # Null THEN Append(out.stdout, takenSnapshot) ELSE out.stdout]

\* ZfsFilesystem.getSnapshotList with ZfsUtilities.snapshotList: the listing of
\* the engine, and the new snapshot pushed after it under the dry-run option
getSnapshotList(filesystem, takenSnapshot, dryRun, fss, snaps) ==
    LET chain == snapshotListCommand(filesystem)
        run == spawnAsync(chain)
        out == TheOutcome(run.spawned, fss, snaps)
        optionalSnapshot == IF dryRun THEN takenSnapshot ELSE Null
    IN  [ok |-> resolves(out),
         issue |-> Issue(chain, run, out),
         list |-> IF ~resolves(out) THEN <<>> ELSE IF optionalSnapshot # Null THEN Append(out.stdout, optionalSnapshot) ELSE out.stdout]

\* a plausible slip: the loop is left after the first task
AfterTarget_Return == "done"

\* where the run goes when the task of the target at `index` has returned
AfterTarget == IF index + 1 > Len(option.arguments) THEN "done" ELSE "target"

RECURSIVE destroyAll(_, _, _, _, _, _, _)
\* the awaited ZfsUtilities.destroySnapshot calls from..to of a purge, one after
\* the other: the first half, then the second half on the engine the first half
\* leaves; the first call that fails throws and ends the run
destroyAll(calls, from, to, filesystem, dryRun, fss, snaps) ==
    IF from > to THEN [snapshots |-> snaps, issues |-> <<>>, crashed |-> FALSE]
    ELSE IF from = to
         THEN Only({Only({[snapshots |-> out.snapshots, issues |-> <<Issue(destroySnapshotCommand(calls[from].snapshot, filesystem), run, out)>>, crashed |-> ~resolves(out)] :
                        out \in {TheOutcome(run.spawned, fss, snaps)}}) :
                        run \in {spawnIfNoDryRunAsync(destroySnapshotCommand(calls[from].snapshot, filesystem), dryRun)}})
         ELSE Only({IF head.crashed THEN head
                    ELSE Only({[snapshots |-> tail.snapshots, issues |-> head.issues \o tail.issues, crashed |-> tail.crashed] :
                                  tail \in {destroyAll(calls, (from + to) \div 2 + 1, to, filesystem, dryRun, fss, head.snapshots)}}) :
                        head \in {destroyAll(calls, from, (from + to) \div 2, filesystem, dryRun, fss, snaps)}})

\* ZfsFilesystem.purgeSnapshots, called by SnapshotSubCommand.#takeSnapshot
purgeSnapshots ==
    /\ pc = "purge"
    /\ LET filesystem == option.arguments[index]
           listed == getSnapshotList(filesystem, newSnapshot, option.dryRun, filesystems, snapshots)
           calls == purgeCalls(listed.list, now)
           result == destroyAll(calls, 1, Len(calls), filesystem, option.dryRun, filesystems, snapshots)
       IN  IF ~listed.ok
           THEN /\ pc' = "crashed"
                /\ issued' = Append(issued, listed.issue)
                /\ UNCHANGED <<snapshots, purged, index, finished>>
           ELSE /\ snapshots' = result.snapshots
                /\ issued' = Append(issued, listed.issue) \o result.issues
                /\ purged' = Append(purged, [filesystem |-> filesystem,
                                             listing |-> listed.list,
                                             generations |-> getSnapshotsByGenerations(listed.list, now),
                                             calls |-> SubSeq(calls, 1, Len(result.issues)),
                                             dryRun |-> option.dryRun,
                                             crashed |-> result.crashed])
                /\ IF result.crashed
                   THEN pc' = "crashed" /\ UNCHANGED <<index, finished>>
                   ELSE /\ finished' = Append(finished, [filesystem |-> filesystem, atStart |-> atStart])
                        /\ index' = index + 1
                        /\ pc' = AfterTarget
    /\ UNCHANGED <<filesystems, now, runs, ticks, option, snapshotNow, zfsFilesystemArray, initialized, newSnapshot, backupVars, printed, atStart, previous, pipeline, constructed, logging, lock, storage, comparison>>

(***************************************************************************)
(* One run of the program: ElephantBackup.start, then the run() of the     *)
(* subcommand, target by target.  A Process whose command fails throws in  *)
(* the handler of its 'close' event: nothing catches it and the program    *)
(* ends there (pc = "crashed").  The clock does not advance during a run,  *)
(* and nothing but the program changes the engine.                         *)
(***************************************************************************)
\* where no run is under way: before the first run, after run() returned,
\* after an uncaught Error, after logger.exit()
Ended == {"none", "done", "crashed", "exited"}

\* the program is loaded: Snapshot.#now takes the local time, the static
\* fields of ZfsFilesystem are fresh, and start() reads the option
start(opt) ==
    /\ pc \in Ended
    /\ runs < MaxRuns
    /\ runs' = runs + 1
    /\ option' = opt
    /\ snapshotNow' = createSnapshot(now)
    /\ zfsFilesystemArray' = {}
    /\ initialized' = FALSE
    /\ index' = 1
    /\ newSnapshot' = Null
    /\ primarySnapshotList' = <<>>
    /\ archiveSnapshotList' = <<>>
    /\ latestOfCommonSnapshot' = Null
    /\ issued' = <<>>
    /\ printed' = <<>>
    /\ finished' = <<>>
    /\ atStart' = NoStart
    /\ previous' = [subCommand |-> option.subCommand, dryRun |-> option.dryRun, finished |-> finished, pc |-> pc,
                     arguments |-> option.arguments, snapshotNow |-> snapshotNow,
                     transfers |-> transfersOf(issued), upToDate |-> upToDateOf(printed)]
    /\ pc' = "run"
    /\ comparison' = NoComparison
    /\ UNCHANGED <<engineVars, now, ticks, purged, pipeline, constructed, logging, lock, storage>>

\* a plausible slip: the list is asked of the engine at every call
getFilesystems_Requeried ==
    LET chain == filesystemListCommand
        process == spawnAsync(chain)
        out == TheOutcome(process.spawned, filesystems, snapshots)
    IN  [array |-> out.stdout, issues |-> <<Issue(chain, process, out)>>]

\* ZfsFilesystem.getFilesystems: the list of the engine the first time, the
\* remembered list afterwards
getFilesystems ==
    LET chain == filesystemListCommand
        process == spawnAsync(chain)
        out == TheOutcome(process.spawned, filesystems, snapshots)
    IN  IF initialized THEN [array |-> zfsFilesystemArray, issues |-> <<>>]
        ELSE [array |-> out.stdout, issues |-> <<Issue(chain, process, out)>>]

\* the program is loaded as for start(), and the subcommand is entered by
\* SubCommand.launch(), the entry the class offers beside run()
launch(opt) ==
    /\ pc \in Ended
    /\ runs < MaxRuns
    /\ runs' = runs + 1
    /\ option' = opt
    /\ snapshotNow' = createSnapshot(now)
    /\ zfsFilesystemArray' = {}
    /\ initialized' = FALSE
    /\ index' = 1
    /\ newSnapshot' = Null
    /\ primarySnapshotList' = <<>>
    /\ archiveSnapshotList' = <<>>
    /\ latestOfCommonSnapshot' = Null
    /\ issued' = <<>>
    /\ printed' = <<>>
    /\ finished' = <<>>
    /\ atStart' = NoStart
    /\ previous' = [subCommand |-> option.subCommand, dryRun |-> option.dryRun, finished |-> finished, pc |-> pc,
                     arguments |-> option.arguments, snapshotNow |-> snapshotNow,
                     transfers |-> transfersOf(issued), upToDate |-> upToDateOf(printed)]
    /\ pc' = "launch"
    /\ comparison' = NoComparison
    /\ UNCHANGED <<engineVars, now, ticks, purged, pipeline, constructed, logging, lock, storage>>

\* primaryArgs.indexOf(primaryArgs[index]) != index, for the first such index
duplicated(primaryArgs) == {i \in 1..Len(primaryArgs) : \E j \in 1..(i - 1) : primaryArgs[j] = primaryArgs[i]}

\* SubCommand.accessibleFilesystems: the error it logs, or none when the
\* filesystems are accessible (SnapshotSubCommand leaves the archive out)
inaccessible(array, primaryArgs, archiveArg, archive) ==
    LET first(S) == CHOOSE i \in S : \A j \in S : i <= j
        absent == {i \in 1..Len(primaryArgs) : primaryArgs[i] \notin array}
    IN  IF duplicated(primaryArgs) # {}
        THEN <<[text |-> "A primary ZFS filesystem is duplicated", name |-> primaryArgs[first(duplicated(primaryArgs))]]>>
        ELSE IF absent # {}
             THEN <<[text |-> "A primary ZFS filesystem is not exist", name |-> primaryArgs[first(absent)]]>>
             ELSE IF archive /\ archiveArg \notin array
                  THEN <<[text |-> "An archive ZFS filesystem is not exist", name |-> archiveArg]>>
                  ELSE <<>>

\* a plausible slip: the remembered list is not looked at
exist_Never(array, name) == FALSE

\* ZfsFilesystem.exist: the remembered list includes the name
exist(array, name) == name \in array

\* DiffSubCommand.accessibleFilesystems after that of the class: the error
\* it logs for the first target the archive does not hold, or none
notArchived(array, primaryArgs, archiveArg) ==
    LET first(S) == CHOOSE i \in S : \A j \in S : i <= j
        absent == {i \in 1..Len(primaryArgs) : ~exist(array, archiveArg \o primaryArgs[i])}
    IN  IF absent # {} THEN <<[text |-> "is not archived yet", name |-> primaryArgs[first(absent)]]>> ELSE <<>>

\* SubCommand.launch: logger.exit() ends the program when the filesystems are
\* not accessible, else run() is entered
accessibleFilesystems ==
    /\ pc = "launch"
    /\ LET listed == getFilesystems
           ofClass == inaccessible(listed.array, option.arguments, option.archive, option.subCommand # "snapshot")
           errors == IF ofClass = <<>> /\ option.subCommand = "diff"
                     THEN notArchived(listed.array, option.arguments, option.archive)
                     ELSE ofClass
       IN  /\ zfsFilesystemArray' = listed.array
           /\ initialized' = TRUE
           /\ issued' = issued \o listed.issues
           /\ IF errors # <<>>
              THEN /\ printed' = printed \o errors \o <<[text |-> "Any ZFS filesystems are not accessible.", name |-> <<>>]>>
                   /\ pc' = "exited"
              ELSE /\ pc' = "run"
                   /\ UNCHANGED printed
    /\ UNCHANGED <<engineVars, now, runs, ticks, option, snapshotNow, index, newSnapshot, backupVars, finished, atStart, purged, previous, pipeline, constructed, logging, lock, storage, comparison>>

\* a plausible slip: the result of find() is not looked at
findFilesystem_Any(array, filesystemName) == TRUE

\* SubCommand.getZfsFilesystem: filesystems.find() finds the name
findFilesystem(array, filesystemName) == filesystemName \in array

\* the beginning of run(): BackupSubCommand and DiffSubCommand get the
\* archive filesystem, SnapshotSubCommand goes to its targets
run ==
    /\ pc = "run"
    /\ IF option.subCommand \in {"backup", "diff"}
       THEN LET listed == getFilesystems
            IN  /\ zfsFilesystemArray' = listed.array
                /\ initialized' = TRUE
                /\ issued' = issued \o listed.issues
                /\ pc' = IF findFilesystem(listed.array, option.archive) THEN "target" ELSE "crashed"
       ELSE /\ pc' = "target"
            /\ UNCHANGED <<zfsFilesystemArray, initialized, issued>>
    /\ UNCHANGED <<engineVars, now, runs, ticks, option, snapshotNow, index, newSnapshot, backupVars, printed, finished, atStart, purged, previous, pipeline, constructed, logging, lock, storage, comparison>>

\* SubCommand.getZfsFilesystem of the next target: a new ZfsFilesystem of its
\* name, or an Error when the list does not hold the name
getZfsFilesystem ==
    /\ pc = "target"
    /\ LET listed == getFilesystems
           filesystemName == option.arguments[index]
       IN  /\ zfsFilesystemArray' = listed.array
           /\ initialized' = TRUE
           /\ issued' = issued \o listed.issues
           /\ pc' = IF ~findFilesystem(listed.array, filesystemName) THEN "crashed"
                    ELSE IF option.subCommand = "backup" THEN "open"
                    ELSE IF option.subCommand = "diff" THEN "compare"
                    ELSE "take"
    /\ newSnapshot' = Null
    /\ UNCHANGED <<engineVars, now, runs, ticks, option, snapshotNow, index, backupVars, printed, finished, atStart, purged, previous, pipeline, constructed, logging, lock, storage, comparison>>

\* #backup: archiveRoot.open(primary.Name), and archive.create() unless the
\* remembered list holds the archive
openArchive ==
    /\ pc = "open"
    /\ LET primary == option.arguments[index]
           archive == option.archive \o primary
           chain == createZfsDatasetCommand(archive)
           process == spawnIfNoDryRunAsync(chain, option.dryRun)
       IN  /\ atStart' = [primary |-> primary, snapshots |-> snapshots[primary], mirror |-> archive \in filesystems,
                         archive |-> IF archive \in filesystems THEN snapshots[archive] ELSE <<>>]
           /\ IF exist(zfsFilesystemArray, archive)
              THEN UNCHANGED <<engineVars, issued>>
              ELSE \E out \in ZfsOutcomes(process.spawned, filesystems, snapshots) :
                      /\ filesystems' = out.filesystems
                      /\ snapshots' = out.snapshots
                      /\ issued' = Append(issued, Issue(chain, process, out))
    /\ pc' = "take"
    /\ UNCHANGED <<now, runs, ticks, option, snapshotNow, zfsFilesystemArray, initialized, index, newSnapshot, backupVars, printed, finished, purged, previous, pipeline, constructed, logging, lock, storage, comparison>>

\* a plausible slip: the backup purges the primary as the snapshot subcommand does
AfterTake_Purge == "purge"

\* where the task goes when takeNewSnapshot has returned: #backup lists the
\* snapshots of the two sides, #takeSnapshot purges the filesystem
AfterTake == IF option.subCommand = "backup" THEN "list" ELSE "purge"

\* a plausible slip: the task goes on to the lists without taking the snapshot
takeNewSnapshot_Skipped ==
    /\ pc = "take"
    /\ pc' = AfterTake
    /\ UNCHANGED <<engineVars, now, runs, ticks, option, snapshotNow, zfsFilesystemArray, initialized, index, newSnapshot, backupVars, issued, printed, finished, atStart, purged, previous, pipeline, constructed, logging, lock, storage, comparison>>

\* ZfsFilesystem.takeNewSnapshot with ZfsUtilities.takeSnapshot
takeNewSnapshot ==
    /\ pc = "take"
    /\ LET filesystem == option.arguments[index]
           chain == takeSnapshotCommand(snapshotNow, filesystem)
           process == spawnIfNoDryRunAsync(chain, option.dryRun)
       IN  \E out \in ZfsOutcomes(process.spawned, filesystems, snapshots) :
              /\ snapshots' = out.snapshots
              /\ issued' = Append(issued, Issue(chain, process, out))
              /\ IF resolves(out)
                 THEN /\ newSnapshot' = snapshotNow
                      /\ printed' = Append(printed, [text |-> "Taken the new snapshot", name |-> filesystem])
                      /\ pc' = AfterTake
                 ELSE /\ pc' = "crashed"
                      /\ UNCHANGED <<newSnapshot, printed>>
    /\ UNCHANGED <<filesystems, now, runs, ticks, option, snapshotNow, zfsFilesystemArray, initialized, index, backupVars, finished, atStart, purged, previous, pipeline, constructed, logging, lock, storage, comparison>>

\* #backup: the lists of the primary and of the archive, and the latest of
\* the snapshots both hold
getSnapshotLists ==
    /\ pc = "list"
    /\ LET primary == option.arguments[index]
           archive == option.archive \o primary
           mine == getSnapshotList(primary, newSnapshot, option.dryRun, filesystems, snapshots)
           theirs == getSnapshotList(archive, Null, option.dryRun, filesystems, snapshots)
           common == findLatest(mine.list, theirs.list)
       IN  IF ~mine.ok
           THEN /\ issued' = Append(issued, mine.issue)
                /\ pc' = "crashed"
                /\ UNCHANGED backupVars
           ELSE IF ~theirs.ok
                THEN /\ issued' = issued \o <<mine.issue, theirs.issue>>
                     /\ pc' = "crashed"
                     /\ UNCHANGED backupVars
                ELSE /\ issued' = issued \o <<mine.issue, theirs.issue>>
                     /\ primarySnapshotList' = mine.list
                     /\ archiveSnapshotList' = theirs.list
                     /\ latestOfCommonSnapshot' = common
                     /\ pc' = IF common # Null THEN "incremental"
                              ELSE IF getEarliest(mine.list) = Null THEN "crashed" ELSE "first"
    /\ UNCHANGED <<engineVars, now, runs, ticks, option, snapshotNow, zfsFilesystemArray, initialized, index, newSnapshot, printed, finished, atStart, purged, previous, pipeline, constructed, logging, lock, storage, comparison>>

\* #backup, when no snapshot is common: the size of the earliest snapshot of
\* the primary is estimated and printed, and the snapshot is sent
firstBackup ==
    /\ pc = "first"
    /\ LET primary == option.arguments[index]
           archive == option.archive \o primary
           earliestPrimarySnapshot == getEarliest(primarySnapshotList)
           estimate == estimateSendSizeCommand(primary, earliestPrimarySnapshot, Null)
           estimating == spawnIfNoDryRunAsync(estimate, option.dryRun)
           firstSize == TheOutcome(estimating.spawned, filesystems, snapshots)
           chain == sendAndReceiveCommand(archive, primary, earliestPrimarySnapshot, Null, option.dryRun)
           sending == spawnIfNoDryRunAsync(chain, option.dryRun)
       IN  IF ~resolves(firstSize)
           THEN /\ issued' = Append(issued, Issue(estimate, estimating, firstSize))
                /\ pc' = "crashed"
                /\ UNCHANGED <<engineVars, printed, latestOfCommonSnapshot>>
           ELSE \E out \in ZfsOutcomes(sending.spawned, filesystems, snapshots) :
                   /\ filesystems' = out.filesystems
                   /\ snapshots' = out.snapshots
                   /\ issued' = issued \o <<Issue(estimate, estimating, firstSize), Issue(chain, sending, out)>>
                   /\ printed' = Append(printed, [text |-> "The first backup size", name |-> primary])
                   /\ IF resolves(out)
                      THEN latestOfCommonSnapshot' = earliestPrimarySnapshot /\ pc' = "incremental"
                      ELSE pc' = "crashed" /\ UNCHANGED latestOfCommonSnapshot
    /\ UNCHANGED <<now, runs, ticks, option, snapshotNow, zfsFilesystemArray, initialized, index, newSnapshot, primarySnapshotList, archiveSnapshotList, finished, atStart, purged, previous, pipeline, constructed, logging, lock, storage, comparison>>

\* a plausible slip: the comparison never succeeds
archiveIsUpToDate_Never(latestOfCommon, latestSnapshot) == FALSE

\* #backup: latestOfCommonSnapshot === latestSnapshot
archiveIsUpToDate(latestOfCommon, latestSnapshot) == latestOfCommon = latestSnapshot

\* #backup, the incremental backup: nothing when the latest snapshot of the
\* primary is the common one, else the snapshots after the common one up to
\* the latest are estimated, printed and sent; the task of the target returns
incrementalBackup ==
    /\ pc = "incremental"
    /\ LET primary == option.arguments[index]
           archive == option.archive \o primary
           latestSnapshot == getLatest(primarySnapshotList)
           estimate == estimateSendSizeCommand(primary, latestOfCommonSnapshot, latestSnapshot)
           estimating == spawnIfNoDryRunAsync(estimate, option.dryRun)
           incrementalSize == TheOutcome(estimating.spawned, filesystems, snapshots)
           chain == sendAndReceiveCommand(archive, primary, latestOfCommonSnapshot, latestSnapshot, option.dryRun)
           sending == spawnIfNoDryRunAsync(chain, option.dryRun)
           returned == /\ finished' = Append(finished, [filesystem |-> primary, atStart |-> atStart])
                       /\ index' = index + 1
                       /\ pc' = AfterTarget
       IN  IF archiveIsUpToDate(latestOfCommonSnapshot, latestSnapshot)
           THEN /\ printed' = Append(printed, [text |-> "Archive is Up-To-Date", name |-> archive])
                /\ returned
                /\ UNCHANGED <<engineVars, issued>>
           ELSE IF ~resolves(incrementalSize)
                THEN /\ issued' = Append(issued, Issue(estimate, estimating, incrementalSize))
                     /\ pc' = "crashed"
                     /\ UNCHANGED <<engineVars, printed, finished, index>>
                ELSE \E out \in ZfsOutcomes(sending.spawned, filesystems, snapshots) :
                        /\ filesystems' = out.filesystems
                        /\ snapshots' = out.snapshots
                        /\ issued' = issued \o <<Issue(estimate, estimating, incrementalSize), Issue(chain, sending, out)>>
                        /\ printed' = Append(printed, [text |-> "The incremental backup size", name |-> primary])
                        /\ IF resolves(out)
                           THEN returned
                           ELSE pc' = "crashed" /\ UNCHANGED <<finished, index>>
    /\ UNCHANGED <<now, runs, ticks, option, snapshotNow, zfsFilesystemArray, initialized, newSnapshot, backupVars, atStart, purged, previous, pipeline, constructed, logging, lock, storage, comparison>>

(***************************************************************************)
(* The diff subcommand: DiffSubCommand.run gets the archive filesystem,    *)
(* then compares target by target.  Compare.compareDirectory walks the     *)
(* directories of the primary; it calls #printDifference for a directory   *)
(* without awaiting it, so the calls go on beside the walk and settle in   *)
(* any order, and the program ends when the last of them has settled.      *)
(***************************************************************************)
\* a plausible slip: the value of the filesystem itself is all that is looked at
mounted_Own(values) == values[1] = "yes"

\* ZfsFilesystem.mounted: the "-" of the snapshots dropped, every value is yes
mounted(values) == LET filesystemValues == SelectSeq(values, LAMBDA value : value # "-")
                   IN  \A i \in 1..Len(filesystemValues) : filesystemValues[i] = "yes"

RECURSIVE toSequence(_)
\* the names of a list of the engine, one after the other
toSequence(S) == IF S = {} THEN <<>> ELSE LET x == CHOOSE x \in S : TRUE IN <<x>> \o toSequence(S \ {x})

\* ZfsFilesystem.getMountPoint of each of `instances`, one zfs get each
getMountPoints(instances, fss, snaps, files) ==
    [i \in 1..Len(instances) |->
        LET chain == getValuesCommand(instances[i], "mountpoint", FALSE)
        IN  Issue(chain, spawnAsync(chain), ZfsValues(chain, fss, snaps, files))]

RECURSIVE compareEach(_, _, _, _, _, _, _, _)
\* the loop of DiffSubCommand.#compare from the descendant at position k on:
\* a descendant the archive does not hold is printed as a new dataset; else
\* ZfsFilesystem.compare asks the mount points - of the descendant and of the
\* excluded ones once each, as an instance remembers its own - and walks the
\* directories
compareEach(primaryDescendants, k, asked, archiveArg, array, fss, snaps, files) ==
    IF k > Len(primaryDescendants) THEN <<>>
    ELSE LET descendant == primaryDescendants[k]
             another == archiveArg \o descendant
             excludes == SelectSeq(primaryDescendants, LAMBDA p : p # descendant)
             instances == SelectSeq(<<descendant>>, LAMBDA p : p \notin asked) \o <<another>> \o SelectSeq(excludes, LAMBDA p : p \notin asked)
         IN  IF ~exist(array, another)
             THEN <<Step(<<Line("an new ZFS dataset", descendant)>>, NoJob)>>
                  \o compareEach(primaryDescendants, k + 1, asked, archiveArg, array, fss, snaps, files)
             ELSE <<[prints |-> <<>>, job |-> NoJob, issues |-> getMountPoints(instances, fss, snaps, files)]>>
                  \o compareDirectory(diskOf(fss, snaps, files), descendant, another, Range(excludes))
                  \o compareEach(primaryDescendants, k + 1, asked \cup {descendant} \cup Range(excludes), archiveArg, array, fss, snaps, files)

\* where the run goes when the comparison of a target has returned: to the
\* next target, or out of run(), where the program waits for the
\* #printDifference calls that have not settled
afterCompare(jobs) == IF index + 1 <= Len(option.arguments) THEN "target"
                      ELSE IF jobs = {} THEN "done" ELSE "drain"

\* DiffSubCommand.#compare up to the first directory: both sides must be
\* mounted, else a warning is all; the datasets below the primary are listed
compare ==
    /\ pc = "compare"
    /\ LET primary == option.arguments[index]
           archive == option.archive \o primary
           ofPrimary == getValuesCommand(primary, "mounted", TRUE)
           ofArchive == getValuesCommand(archive, "mounted", TRUE)
           primaryValues == ZfsValues(ofPrimary, filesystems, snapshots, storage)
           archiveValues == ZfsValues(ofArchive, filesystems, snapshots, storage)
           below == filesystemListBelowCommand(primary)
           listed == TheOutcome(below, filesystems, snapshots)
           children == toSequence({f \in listed.stdout : IsBelow(f, primary) /\ f # primary})
           primaryDescendants == <<primary>> \o children
           first == Issue(ofPrimary, spawnAsync(ofPrimary), primaryValues)
           second == Issue(ofArchive, spawnAsync(ofArchive), archiveValues)
           third == Issue(below, spawnAsync(below), listed)
           returned == /\ finished' = Append(finished, [filesystem |-> primary, atStart |-> atStart])
                       /\ index' = index + 1
                       /\ pc' = afterCompare(comparison.jobs)
                       /\ UNCHANGED comparison
           thrown == /\ pc' = "crashed"
                     /\ UNCHANGED <<printed, finished, index, comparison>>
       IN  IF ~resolves(primaryValues)
           THEN issued' = Append(issued, first) /\ thrown
           ELSE IF ~mounted(primaryValues.stdout)
           THEN /\ issued' = Append(issued, first)
                /\ printed' = Append(printed, [text |-> "The primary ZFS filesystem containing unmounted filesystems", name |-> primary])
                /\ returned
           ELSE IF ~resolves(archiveValues)
           THEN issued' = issued \o <<first, second>> /\ thrown
           ELSE IF ~mounted(archiveValues.stdout)
           THEN /\ issued' = issued \o <<first, second>>
                /\ printed' = Append(printed, [text |-> "The archive ZFS dataset containing unmounted filesystems", name |-> archive])
                /\ returned
           ELSE /\ issued' = issued \o <<first, second, third>>
                /\ printed' = Append(printed, [text |-> "Printing the differences of", name |-> primary])
                /\ comparison' = [comparison EXCEPT !.walk = compareEach(primaryDescendants, 1, {}, option.archive, zfsFilesystemArray, filesystems, snapshots, storage)]
                /\ pc' = "walk"
                /\ UNCHANGED <<finished, index>>
    /\ UNCHANGED <<engineVars, now, runs, ticks, option, snapshotNow, zfsFilesystemArray, initialized, newSnapshot, backupVars, atStart, purged, previous, pipeline, constructed, logging, lock, storage>>

\* the next part of the walk: its lines are printed, its call of
\* #printDifference is under way from now on; after the last part #compare returns
continueCompare ==
    /\ pc = "walk"
    /\ LET step == Head(comparison.walk)
           jobs == comparison.jobs \cup (IF step.job = NoJob THEN {} ELSE {step.job})
       IN  /\ printed' = printed \o step.prints
           /\ issued' = issued \o step.issues
           /\ comparison' = [walk |-> Tail(comparison.walk), jobs |-> jobs]
           /\ IF Len(comparison.walk) = 1
              THEN /\ finished' = Append(finished, [filesystem |-> option.arguments[index], atStart |-> atStart])
                   /\ index' = index + 1
                   /\ pc' = afterCompare(jobs)
              ELSE UNCHANGED <<finished, index, pc>>
    /\ UNCHANGED <<engineVars, now, runs, ticks, option, snapshotNow, zfsFilesystemArray, initialized, newSnapshot, backupVars, atStart, purged, previous, pipeline, constructed, logging, lock, storage>>

\* one call of #printDifference settles: its lines are printed, or it has
\* rejected, and as no one awaits it the rejection is unhandled: by the
\* setting of the runtime this ends the program or is warned about
printDifferenceSettles ==
    /\ pc \in {"target", "compare", "walk", "drain"}
    /\ \E job \in comparison.jobs :
          LET result == printDifference(diskOf(filesystems, snapshots, storage), job.files, job.one, job.another)
              left == comparison.jobs \ {job}
              goesOn == IF pc = "drain" /\ left = {} THEN "done" ELSE pc
          IN  /\ comparison' = [comparison EXCEPT !.jobs = left]
              /\ printed' = printed \o result.prints
              /\ IF result.rejected THEN pc' \in {"crashed", goesOn} ELSE pc' = goesOn
    /\ UNCHANGED <<engineVars, now, runs, ticks, option, snapshotNow, zfsFilesystemArray, initialized, index, newSnapshot, backupVars, issued, finished, atStart, purged, previous, pipeline, constructed, logging, lock, storage>>

(***************************************************************************)
(* SpecFind: findLatest applied to every pair of lists within the bounds.  *)
(***************************************************************************)
BoundedSeq(S, n) == UNION {[1..k -> S] : k \in 0..n}

FindNames == {createSnapshot(Epoch), createSnapshot(Epoch + 1), SnapshotName("manual", Epoch)}

InitFind == /\ filesystems = {}
            /\ snapshots = [f \in AllFilesystems |-> <<>>]
            /\ now = Epoch
            /\ runs = 0
            /\ ticks = 0
            /\ option = NoOption
            /\ pc = "find"
            /\ snapshotNow = Null
            /\ zfsFilesystemArray = {}
            /\ initialized = FALSE
            /\ index = 0
            /\ newSnapshot = Null
            /\ primarySnapshotList \in BoundedSeq(FindNames, MaxLen)
            /\ archiveSnapshotList \in BoundedSeq(FindNames, MaxLen)
            /\ latestOfCommonSnapshot = Null
            /\ issued = <<>>
            /\ printed = <<>>
            /\ finished = <<>>
            /\ atStart = NoStart
            /\ purged = <<>>
            /\ previous = NoRun
            /\ pipeline = NoPipeline
            /\ storage = NoFiles
            /\ comparison = NoComparison
            /\ constructed = NoSnapshot
            /\ logging = NoLogging
            /\ lock = NoLock

\* primarySnapshotList.findLatest(archiveSnapshotList), as #backup calls it
FindLatest == /\ pc = "find"
              /\ latestOfCommonSnapshot' = findLatest(primarySnapshotList, archiveSnapshotList)
              /\ pc' = "found"
              /\ UNCHANGED <<engineVars, now, runs, ticks, option, snapshotNow, zfsFilesystemArray, initialized, index, newSnapshot, primarySnapshotList, archiveSnapshotList, issued, printed, finished, atStart, purged, previous, pipeline, constructed, logging, lock, storage, comparison>>

NextFind == FindLatest

SpecFind == InitFind /\ [][NextFind]_vars

(***************************************************************************)
(* SpecPurge: purgeSnapshots applied, MaxPurgeRuns times and at the same   *)
(* current time, to the snapshot lists of one filesystem.                  *)
(***************************************************************************)
\* names of the grammar, ascending, around the limits of the generations and
\* the intervals of the passes
PurgeElephants == <<createSnapshot(Age(45 * SecondsPerDay)),
                    createSnapshot(Age(44 * SecondsPerDay)),
                    createSnapshot(Age(38 * SecondsPerDay)),
                    createSnapshot(Age(SNAPSHOT_KEEP_DAYS * SecondsPerDay)),
                    createSnapshot(Age(5 * SecondsPerDay)),
                    createSnapshot(Age(5 * SecondsPerDay - 6 * SecondsPerHour)),
                    createSnapshot(Age(4 * SecondsPerDay)),
                    createSnapshot(Age(SNAPSHOT_KEEP_HOURS * SecondsPerHour)),
                    createSnapshot(Age(SecondsPerHour))>>

\* names outside the grammar: another prefix, and a rest that is no date
PurgeForeigners == {SnapshotName("manual", Age(44 * SecondsPerDay)), [prefix |-> PREFIX_SNAPSHOT, stamp |-> <<>>]}

\* a listing: no name twice, the names of the grammar in the order of their dates
IsListing(list) == /\ \A i, j \in 1..Len(list) : i < j => list[i] # list[j]
                   /\ \A i, j \in 1..Len(list) : (i < j /\ Len(list[i].stamp) = 2 /\ Len(list[j].stamp) = 2 /\ list[i].prefix = list[j].prefix) => getDate(list[i]) < getDate(list[j])

ShortListings == {list \in BoundedSeq(Range(PurgeElephants) \cup PurgeForeigners, MaxLen) : IsListing(list)}

\* count snapshots, the oldest `oldest` seconds old, one every `step` seconds
Regular(count, step, oldest) == [i \in 1..count |-> createSnapshot(Age(oldest) + (i - 1) * step)]

\* old-generation lists around SNAPSHOT_KEEP_WEEKS snapshots, weekly and daily
LongListings == {Regular(count, step * SecondsPerDay, SNAPSHOT_KEEP_DAYS * SecondsPerDay + (count - 1) * step * SecondsPerDay) :
                    count \in (SNAPSHOT_KEEP_WEEKS - 1)..(SNAPSHOT_KEEP_WEEKS + MaxExcess), step \in {1, 7}}

\* the same lists between a snapshot that is not of the grammar and two
\* snapshots of the middle generation
MixedListings == {<<foreigner>> \o list \o SubSeq(PurgeElephants, 5, 6) : foreigner \in PurgeForeigners, list \in LongListings}

\* middle-generation snapshots 6 hours apart over 10 days
SixHourly == Regular(40, 6 * SecondsPerHour, 25 * SecondsPerDay)

\* snapshots 6 hours apart over the last two days, across the SNAPSHOT_KEEP_HOURS hours
LastDays == Regular(8, 6 * SecondsPerHour, 45 * SecondsPerHour)

PurgeTarget == <<"pool1">>

InitPurge == /\ filesystems = {PurgeTarget}
             /\ \E list \in ShortListings \cup LongListings \cup MixedListings \cup {SixHourly, LastDays} :
                   snapshots = [f \in AllFilesystems |-> IF f = PurgeTarget THEN list ELSE <<>>]
             /\ now = Epoch
             /\ runs = 1
             /\ ticks = 0
             /\ \E dryRun \in BOOLEAN :
                   option = [subCommand |-> "snapshot", dryRun |-> dryRun, archive |-> <<>>, arguments |-> <<PurgeTarget>>]
             /\ pc = "purge"
             /\ snapshotNow = createSnapshot(Epoch)
             /\ zfsFilesystemArray = {PurgeTarget}
             /\ initialized = TRUE
             /\ index = 1
             /\ newSnapshot = Null
             /\ primarySnapshotList = <<>>
             /\ archiveSnapshotList = <<>>
             /\ latestOfCommonSnapshot = Null
             /\ issued = <<>>
             /\ printed = <<>>
             /\ finished = <<>>
             /\ atStart = NoStart
             /\ purged = <<>>
             /\ previous = NoRun
             /\ pipeline = NoPipeline
             /\ storage = NoFiles
             /\ comparison = NoComparison
             /\ constructed = NoSnapshot
             /\ logging = NoLogging
             /\ lock = NoLock

\* purgeSnapshots is called once more on the same filesystem
PurgeAgain == /\ pc \in {"done", "crashed"}
              /\ Len(purged) < MaxPurgeRuns
              /\ pc' = "purge"
              /\ index' = 1
              /\ issued' = <<>>
              /\ finished' = <<>>
              /\ UNCHANGED <<engineVars, now, runs, ticks, option, snapshotNow, zfsFilesystemArray, initialized, newSnapshot, backupVars, printed, atStart, purged, previous, pipeline, constructed, logging, lock, storage, comparison>>

NextPurge == purgeSnapshots \/ PurgeAgain

SpecPurge == InitPurge /\ [][NextPurge]_vars

(***************************************************************************)
(* Spec: runs of the backup and of the snapshot subcommand, with and       *)
(* without the dry-run option, one after the other on a machine with two   *)
(* pools and an archive pool.                                              *)
(***************************************************************************)
\* the snapshots earlier runs took on pool1, two days ago and 6 hours apart
History == [i \in 1..MaxPrior |-> createSnapshot(Age(2 * SecondsPerDay) + (i - 1) * 6 * SecondsPerHour)]

Arguments == {<<<<"pool1">>>>, <<<<"pool1">>, <<"pool2">>>>, <<<<"pool1">>, Ghost>>, <<Ghost, <<"pool1">>>>, <<<<"pool1">>, <<"pool1">>>>}

Options == {[subCommand |-> subCommand, dryRun |-> dryRun, archive |-> ArchiveRoot, arguments |-> arguments] :
               subCommand \in {"backup", "snapshot"}, dryRun \in BOOLEAN, arguments \in Arguments}

\* pool1 holds the first snapshots of History; its mirror is absent, or holds
\* the first of those, as earlier backups left it, or holds a snapshot of its
\* own and none of the primary
Init == /\ \E mirrors \in SUBSET {Mirror(<<"pool1">>)} : filesystems = Pools \cup {ArchiveRoot} \cup mirrors
        /\ \E n \in 0..MaxPrior : \E held \in {SubSeq(History, 1, m) : m \in 0..n} \cup {<<Stray>>} :
              snapshots = [f \in AllFilesystems |->
                              IF f = <<"pool1">> THEN SubSeq(History, 1, n)
                              ELSE IF f = Mirror(<<"pool1">>) /\ f \in filesystems THEN held
                              ELSE <<>>]
        /\ now = Epoch
        /\ storage = NoFiles
        /\ NotRunning

\* the clock passes a second between two runs
Tick == /\ pc \in Ended
        /\ ticks < MaxTicks
        /\ ticks' = ticks + 1
        /\ now' = now + 1
        /\ UNCHANGED <<engineVars, runs, option, pc, snapshotNow, zfsFilesystemArray, initialized, index, newSnapshot, backupVars, issued, printed, finished, atStart, purged, previous, pipeline, constructed, logging, lock, storage, comparison>>

Next == \/ Tick
        \/ \E opt \in Options : start(opt)
        \/ \E opt \in Options : launch(opt)
        \/ accessibleFilesystems
        \/ run
        \/ getZfsFilesystem
        \/ openArchive
        \/ takeNewSnapshot
        \/ getSnapshotLists
        \/ firstBackup
        \/ incrementalBackup
        \/ purgeSnapshots

Spec == Init /\ [][Next]_vars

(***************************************************************************)
(* SpecDiff: runs of the backup and of the diff subcommand on a machine    *)
(* whose pool1 holds files that change between the runs.                   *)
(***************************************************************************)
DiffArguments == {<<<<"pool1">>>>, <<<<"pool1">>, <<"pool2">>>>}

DiffOptions == {[subCommand |-> subCommand, dryRun |-> FALSE, archive |-> ArchiveRoot, arguments |-> arguments] :
                   subCommand \in {"backup", "diff"}, arguments \in DiffArguments}

\* pool1 holds any tree of files and pool2 its own; pool1 has no snapshot and
\* no mirror, or one snapshot, which its mirror holds as well, or one
\* snapshot and a mirror that holds a snapshot of its own; one of pool1 and
\* its mirror may be unmounted
InitDiff == /\ \E mirrors \in {{}, {Mirror(<<"pool1">>)}, {Mirror(<<"pool1">>), Old}} : filesystems = Pools \cup {ArchiveRoot} \cup mirrors
            /\ \E held \in {SubSeq(History, 1, 1), <<Stray>>} :
                  snapshots = [f \in AllFilesystems |->
                                  IF Mirror(<<"pool1">>) \notin filesystems THEN <<>>
                                  ELSE IF f = <<"pool1">> THEN SubSeq(History, 1, 1)
                                  ELSE IF f = Mirror(<<"pool1">>) THEN held
                                  ELSE <<>>]
            /\ now = Epoch
            /\ \E tree \in Trees : \E unmounted \in {{}, {<<"pool1">>}, {Mirror(<<"pool1">>)}, {Old}} :
                  /\ Old \in unmounted => Old \in filesystems
                  /\ Old \in filesystems => unmounted \in {{}, {Old}}
                  /\ storage = [trees |-> [p \in Pools |-> <<[since |-> 0, tree |-> IF p = <<"pool1">> THEN tree ELSE Pool2Tree]>>],
                             unmounted |-> unmounted]
            /\ NotRunning

\* between two runs the files of pool1 change, which takes a second
changeFiles ==
    /\ pc \in Ended
    /\ Len(storage.trees[<<"pool1">>]) <= MaxChanges
    /\ \E tree \in Trees :
          /\ tree # treeOf(<<"pool1">>, snapshots, storage)
          /\ storage' = [storage EXCEPT !.trees[<<"pool1">>] = Append(@, [since |-> now + 1, tree |-> tree])]
    /\ now' = now + 1
    /\ UNCHANGED <<engineVars, runs, ticks, option, pc, snapshotNow, zfsFilesystemArray, initialized, index, newSnapshot, backupVars, issued, printed, finished, atStart, purged, previous, pipeline, constructed, logging, lock, comparison>>

NextDiff == \/ changeFiles
            \/ \E opt \in DiffOptions : start(opt)
            \/ \E opt \in {o \in DiffOptions : o.subCommand = "diff"} : launch(opt)
            \/ accessibleFilesystems
            \/ run
            \/ getZfsFilesystem
            \/ openArchive
            \/ takeNewSnapshot
            \/ getSnapshotLists
            \/ firstBackup
            \/ incrementalBackup
            \/ compare
            \/ continueCompare
            \/ printDifferenceSettles

SpecDiff == InitDiff /\ [][NextDiff]_vars

(***************************************************************************)
(* SpecName: `new Snapshot(name)` on names character by character, and the *)
(* getter `name` on the instance it made.                                  *)
(***************************************************************************)
\* the variables of the runs, which the specifications below leave alone
runVars == <<filesystems, snapshots, now, runs, ticks, option, pc, snapshotNow, zfsFilesystemArray, initialized, index, newSnapshot, primarySnapshotList, archiveSnapshotList, latestOfCommonSnapshot, issued, printed, finished, atStart, purged, previous, storage, comparison>>

\* the characters the names at hand are made of
Characters == {"-", "0", "9", "e", "E", "x", " ", "LF", "E3"}

\* names of the shape Snapshot.createSnapshot gives, whatever the digits
SampleNames == {PrefixCharacters \o <<"-">> \o y \o <<"-">> \o m \o <<"-">> \o d \o <<"-">> \o t :
                   y \in {<<"2", "0", "2", "2">>, <<"0", "0", "0", "0">>},
                   m \in {<<"0", "8">>, <<"1", "3">>},
                   d \in {<<"2", "9">>},
                   t \in {<<"1", "5", "3", "4", "0", "7">>, <<"9", "9", "9", "9", "9", "9">>}}

\* a name with one character put in, replaced or left out
Edits(text) == {SubSeq(text, 1, i - 1) \o <<c>> \o SubSeq(text, i, Len(text)) : i \in 1..(Len(text) + 1), c \in Characters}
               \cup {[text EXCEPT ![i] = c] : i \in 1..Len(text), c \in Characters}
               \cup {SubSeq(text, 1, i - 1) \o SubSeq(text, i + 1, Len(text)) : i \in 1..Len(text)}

\* the names given to the constructor: by createSnapshot, and from the listings of the engine
Names == SampleNames \cup UNION {Edits(text) : text \in SampleNames} \cup {<<>>, PrefixCharacters}

InitName == /\ filesystems = {}
            /\ snapshots = [f \in AllFilesystems |-> <<>>]
            /\ now = Epoch
            /\ storage = NoFiles
            /\ NotRunning

\* const snapshot = new Snapshot(name)
construct(name) ==
    /\ constructed' = [called |-> TRUE, name |-> name, thrown |-> Snapshot(name).thrown, instances |-> Snapshot(name).instances, read |-> {}]
    /\ UNCHANGED <<runVars, pipeline, logging, lock>>

\* snapshot.name
readName ==
    /\ constructed.instances # {}
    /\ constructed.read = {}
    /\ constructed' = [constructed EXCEPT !.read = {nameOf(instance) : instance \in constructed.instances}]
    /\ UNCHANGED <<runVars, pipeline, logging, lock>>

NextName == \/ \E name \in Names : construct(name)
            \/ readName

SpecName == InitName /\ [][NextName]_vars

(***************************************************************************)
(* SpecLog: several processes of the program on one machine, each with its *)
(* Logger: LogFileReference.createInstance, FileLogWriter.prepare and      *)
(* LogFileReference.destroy.  Each call of node:fs is one step; between    *)
(* two steps of a process the other processes may take theirs.             *)
(***************************************************************************)
\* the processes of the program on the machine
Processes == 1..NumProcesses

\* a process before it starts
Idle == [pc |-> "idle", count |-> 0, starts |-> 0]

\* the reference file does not exist
NoReference == [exist |-> FALSE, count |-> 0]

InitLog == /\ filesystems = {}
           /\ snapshots = [f \in AllFilesystems |-> <<>>]
           /\ now = Epoch
           /\ storage = NoFiles
           /\ runs = 0
           /\ ticks = 0
           /\ option = NoOption
           /\ pc = "none"
           /\ snapshotNow = Null
           /\ zfsFilesystemArray = {}
           /\ initialized = FALSE
           /\ index = 0
           /\ newSnapshot = Null
           /\ primarySnapshotList = <<>>
           /\ archiveSnapshotList = <<>>
           /\ latestOfCommonSnapshot = Null
           /\ issued = <<>>
           /\ printed = <<>>
           /\ finished = <<>>
           /\ atStart = NoStart
           /\ purged = <<>>
           /\ previous = NoRun
           /\ pipeline = NoPipeline
           /\ comparison = NoComparison
           /\ constructed = NoSnapshot
           /\ lock = NoLock
           /\ \E logFile \in BOOLEAN :
                 logging = [reference |-> NoReference, logFile |-> logFile, process |-> [p \in Processes |-> Idle]]

\* the step of a process: its new position and the count it holds
Goes(p, to, count) == [logging EXCEPT !.process[p].pc = to, !.process[p].count = count]

\* LogFileReference.Count: readFileSync and parseInt; throws when the file is not there
Count(p, to) == IF logging.reference.exist THEN Goes(p, to, logging.reference.count)
                ELSE Goes(p, "crashed", 0)

\* LogFileReference.#writeReference: writeFileSync makes the file when it is not there
writeReference(count) == [exist |-> TRUE, count |-> count]

\* LogFileReference.createInstance up to fs.existsSync(refFile)
createInstance(p) ==
    /\ logging.process[p].pc = "idle"
    /\ logging.process[p].starts < MaxStarts
    /\ logging' = [logging EXCEPT !.process[p].pc = IF logging.reference.exist THEN "exist" ELSE "new",
                                  !.process[p].starts = @ + 1]
    /\ UNCHANGED <<runVars, pipeline, constructed, lock>>

\* #addReference: let count = this.Count
addReferenceCount(p) ==
    /\ logging.process[p].pc = "exist"
    /\ logging' = Count(p, "add")
    /\ UNCHANGED <<runVars, pipeline, constructed, lock>>

\* #addReference: count++; this.#writeReference(count)
addReferenceWrite(p) ==
    /\ logging.process[p].pc = "add"
    /\ logging' = [Goes(p, "attached", 0) EXCEPT !.reference = writeReference(logging.process[p].count + 1)]
    /\ UNCHANGED <<runVars, pipeline, constructed, lock>>

\* createInstance when the file was not there: instance.#writeReference(1)
createInstanceWrite(p) ==
    /\ logging.process[p].pc = "new"
    /\ logging' = [Goes(p, "attached", 0) EXCEPT !.reference = writeReference(1)]
    /\ UNCHANGED <<runVars, pipeline, constructed, lock>>

\* FileLogWriter.prepare up to its first await: fs.existsSync(filePath)
prepare(p) ==
    /\ logging.process[p].pc = "attached"
    /\ logging' = Goes(p, IF logging.logFile THEN "access" ELSE "create", 0)
    /\ UNCHANGED <<runVars, pipeline, constructed, lock>>

\* prepare after fsPromises.access: LogFileReference.Instance.Count == 1
prepareCount(p) ==
    /\ logging.process[p].pc = "access"
    /\ logging' = IF ~logging.reference.exist THEN Goes(p, "crashed", 0)
                  ELSE IF logging.reference.count = 1 THEN Goes(p, "truncate", 0)
                  ELSE Goes(p, "open", 0)
    /\ UNCHANGED <<runVars, pipeline, constructed, lock>>

\* #truncate has moved the records to the head of the log file and cut it
truncate(p) ==
    /\ logging.process[p].pc = "truncate"
    /\ logging' = Goes(p, "open", 0)
    /\ UNCHANGED <<runVars, pipeline, constructed, lock>>

\* prepare when the log file was not there: it is made, empty
prepareCreate(p) ==
    /\ logging.process[p].pc = "create"
    /\ logging' = [Goes(p, "open", 0) EXCEPT !.logFile = TRUE]
    /\ UNCHANGED <<runVars, pipeline, constructed, lock>>

\* this.#fileHandle = fs.openSync(filePath, 'as'): the process writes its lines from now on
prepareOpen(p) ==
    /\ logging.process[p].pc = "open"
    /\ logging' = [Goes(p, "logging", 0) EXCEPT !.logFile = TRUE]
    /\ UNCHANGED <<runVars, pipeline, constructed, lock>>

\* LogFileReference.destroy: let count = this.Count
destroyCount(p) ==
    /\ logging.process[p].pc = "logging"
    /\ logging' = Count(p, "release")
    /\ UNCHANGED <<runVars, pipeline, constructed, lock>>

\* destroy: count--; this.#writeReference(count)
destroyWrite(p) ==
    /\ logging.process[p].pc = "release"
    /\ LET count == logging.process[p].count - 1
       IN  logging' = [Goes(p, IF count = 0 THEN "remove" ELSE "idle", 0) EXCEPT !.reference = writeReference(count)]
    /\ UNCHANGED <<runVars, pipeline, constructed, lock>>

\* destroy: fs.rmSync(this.#filePath), which throws when the file is not there
destroyRemove(p) ==
    /\ logging.process[p].pc = "remove"
    /\ logging' = IF logging.reference.exist THEN [Goes(p, "idle", 0) EXCEPT !.reference = NoReference]
                  ELSE Goes(p, "crashed", 0)
    /\ UNCHANGED <<runVars, pipeline, constructed, lock>>

NextLog == \E p \in Processes :
              \/ createInstance(p)
              \/ addReferenceCount(p)
              \/ addReferenceWrite(p)
              \/ createInstanceWrite(p)
              \/ prepare(p)
              \/ prepareCount(p)
              \/ truncate(p)
              \/ prepareCreate(p)
              \/ prepareOpen(p)
              \/ destroyCount(p)
              \/ destroyWrite(p)
              \/ destroyRemove(p)

SpecLog == InitLog /\ [][NextLog]_vars

(***************************************************************************)
(* SpecLock: one Lock and the callers of its acquire and release.  A call  *)
(* of acquire runs the resolver of its promise at once; the code after the *)
(* await of a caller runs in a later turn; release leaves a timer behind,  *)
(* whose callback runs in a turn of its own.  A caller calls release once  *)
(* for each time it got the lock, while it holds it.  The record of the    *)
(* lock keeps, next to #acquired and the listeners of 'released', what the *)
(* claims need of the past: the number of acquire calls so far, for each    *)
(* caller the number of its call and whether it had to wait, and the       *)
(* number of promises resolved since the last timer ran.                   *)
(***************************************************************************)
\* the callers of acquire and release
Callers == 1..NumCallers

\* the delays the callers pass to release
WaitTimes == {0, 1}

\* a caller that is not in acquire and does not hold the lock
Outside == [pc |-> "outside", acquires |-> 0, ticket |-> 0, waited |-> FALSE]

InitLock == /\ filesystems = {}
            /\ snapshots = [f \in AllFilesystems |-> <<>>]
            /\ now = Epoch
            /\ storage = NoFiles
            /\ runs = 0
            /\ ticks = 0
            /\ option = NoOption
            /\ pc = "none"
            /\ snapshotNow = Null
            /\ zfsFilesystemArray = {}
            /\ initialized = FALSE
            /\ index = 0
            /\ newSnapshot = Null
            /\ primarySnapshotList = <<>>
            /\ archiveSnapshotList = <<>>
            /\ latestOfCommonSnapshot = Null
            /\ issued = <<>>
            /\ printed = <<>>
            /\ finished = <<>>
            /\ atStart = NoStart
            /\ purged = <<>>
            /\ previous = NoRun
            /\ pipeline = NoPipeline
            /\ comparison = NoComparison
            /\ constructed = NoSnapshot
            /\ logging = NoLogging
            /\ lock = [NoLock EXCEPT !.caller = [c \in Callers |-> Outside]]

\* a plausible slip: prependListener, the listener is put before the others
on_Prepend(l, c) == [l EXCEPT !.listeners = <<c>> \o @]

\* EventEmitter.on('released', notifier): the listener is added after the others
on(l, c) == [l EXCEPT !.listeners = Append(@, c)]

\* EventEmitter.removeListener('released', notifier)
removeListener(l, c) == [l EXCEPT !.listeners = SelectSeq(@, LAMBDA listener : listener # c)]

\* resolve('dummy'): the promise of the caller is resolved
resolve(l, c) == [l EXCEPT !.caller[c].pc = "resolved", !.resolutions = @ + 1]

\* a plausible slip: the listener takes the lock without looking at #acquired
notifier_Unchecked(l, c) == resolve(removeListener([l EXCEPT !.acquired = TRUE], c), c)

\* the notifier of a waiting caller, called by emit
notifier(l, c) == IF ~l.acquired THEN resolve(removeListener([l EXCEPT !.acquired = TRUE], c), c)
                  ELSE l

\* the resolver of the promise of acquire
resolver(l, c) == IF l.acquired THEN on(l, c)
                  ELSE resolve([l EXCEPT !.acquired = TRUE], c)

RECURSIVE emit(_, _)
\* EventEmitter.emit('released'): the listeners registered when emit is called
\* are called one after the other, in the order of their registration
emit(l, called) == IF called = <<>> THEN l
                   ELSE emit(notifier(l, Head(called)), Tail(called))

\* Lock.acquire, called by c: new Promise(resolver) runs the resolver
acquire(c) ==
    /\ lock.caller[c].pc = "outside"
    /\ lock.caller[c].acquires < MaxAcquires
    /\ lock' = resolver([lock EXCEPT !.calls = @ + 1,
                                     !.caller[c] = [pc |-> "waiting", acquires |-> @.acquires + 1, ticket |-> lock.calls + 1, waited |-> lock.acquired]], c)
    /\ UNCHANGED <<runVars, pipeline, constructed, logging>>

\* the code of c after its await of the promise of acquire runs
resume(c) ==
    /\ lock.caller[c].pc = "resolved"
    /\ lock' = [lock EXCEPT !.caller[c].pc = "holding"]
    /\ UNCHANGED <<runVars, pipeline, constructed, logging>>

\* Lock.release(waitTime), called by the caller that holds the lock: setTimeout
release(c, waitTime) ==
    /\ lock.caller[c].pc = "holding"
    /\ lock' = [lock EXCEPT !.caller[c].pc = "outside", !.timers = Append(@, waitTime)]
    /\ UNCHANGED <<runVars, pipeline, constructed, logging>>

\* the callback of the timer at position i of the pending timers runs (the
\* timers were set at different times, so any of them may be the first due)
timeout(i) ==
    /\ i \in 1..Len(lock.timers)
    /\ lock' = emit([lock EXCEPT !.timers = SubSeq(@, 1, i - 1) \o SubSeq(@, i + 1, Len(@)),
                                 !.acquired = FALSE,
                                 !.resolutions = 0], lock.listeners)
    /\ UNCHANGED <<runVars, pipeline, constructed, logging>>

NextLock == \/ \E c \in Callers : acquire(c)
            \/ \E c \in Callers : resume(c)
            \/ \E c \in Callers, waitTime \in WaitTimes : release(c, waitTime)
            \/ \E i \in 1..NumCallers : timeout(i)

SpecLock == InitLock /\ [][NextLock]_vars

\* the event loop of node runs every timer that is due and every continuation
\* of a resolved promise; and every caller that holds the lock releases it
SpecLockFair == /\ SpecLock
                /\ WF_vars(\E i \in 1..NumCallers : timeout(i))
                /\ \A c \in Callers : WF_vars(resume(c))
                /\ \A c \in Callers : WF_vars(\E waitTime \in WaitTimes : release(c, waitTime))

(***************************************************************************)
(* SpecPipe: one call of Process.spawnAsync on a chain, followed child by  *)
(* child.  The call spawns every child of the chain before its first       *)
(* await; then the children write and close in any order, and the handlers *)
(* of their events run one at a time.                                      *)
(***************************************************************************)
\* the variables of the program other than the pipeline
programVars == <<filesystems, snapshots, now, runs, ticks, option, pc, snapshotNow, zfsFilesystemArray, initialized, index, newSnapshot, primarySnapshotList, archiveSnapshotList, latestOfCommonSnapshot, issued, printed, finished, atStart, purged, previous, constructed, logging, lock, storage, comparison>>

\* the character by which the data of the process at position i is known
Letters == <<"a", "b", "c", "d">>

\* the chunks of data the process at position i writes: with and without
\* white space at the end
Chunks(i) == {<<Letters[i]>>, <<Letters[i], " ">>, <<" ", Letters[i], " ", " ">>}

RECURSIVE trimEnd(_)
\* String.prototype.trimEnd
trimEnd(data) == IF data = <<>> THEN <<>>
                 ELSE IF data[Len(data)] = " " THEN trimEnd(SubSeq(data, 1, Len(data) - 1))
                 ELSE data

\* the chains: each process with or without syncResult()
Chains == UNION {[1..n -> [syncResult : BOOLEAN]] : n \in 1..MaxStages}

\* code is null when a signal ended the child
NullCode == -1

\* the (code, signal) of the 'close' event of a child
Exits == {[code |-> 0, signal |-> ""], [code |-> 1, signal |-> ""], [code |-> NullCode, signal |-> "SIGTERM"]}

NoExit == [code |-> NullCode, signal |-> ""]

\* Process.spawnAsync up to its await: every child of the chain is spawned,
\* the stdout of each piped to the stdin of the next, the handlers are set
Spawned(chain) == [phase |-> "spawned",
                   chain |-> chain,
                   child |-> [i \in 1..Len(chain) |-> "running"],
                   exits |-> [i \in 1..Len(chain) |-> NoExit],
                   written |-> [i \in 1..Len(chain) |-> <<>>],
                   stdin |-> [i \in 1..Len(chain) |-> <<>>],
                   stdout |-> [i \in 1..Len(chain) |-> <<>>],
                   echoed |-> <<>>,
                   resolved |-> [i \in 1..Len(chain) |-> FALSE],
                   value |-> <<>>]

\* the call of spawnAsync on a chain
spawnChain(chain) ==
    /\ pipeline.phase = "none"
    /\ pipeline' = Spawned(chain)
    /\ UNCHANGED programVars

\* the child at position i writes data to its stdout: the data go to the
\* stdin of the next child when there is one; else the handler of 'data'
\* adds them trimmed to stdout after syncResult(), and hands them to the
\* stdout handler otherwise
onData(i, data) ==
    /\ pipeline.phase = "spawned"
    /\ i \in 1..Len(pipeline.chain)
    /\ pipeline.child[i] = "running"
    /\ Len(pipeline.written[i]) < MaxChunks
    /\ pipeline' = IF i < Len(pipeline.chain)
                   THEN [pipeline EXCEPT !.written[i] = Append(@, data),
                                         !.stdin[i + 1] = IF pipeline.child[i + 1] = "running" THEN @ \o data ELSE @]
                   ELSE IF pipeline.chain[i].syncResult
                        THEN [pipeline EXCEPT !.written[i] = Append(@, data), !.stdout[i] = @ \o trimEnd(data)]
                        ELSE [pipeline EXCEPT !.written[i] = Append(@, data), !.echoed = Append(@, trimEnd(data))]
    /\ UNCHANGED programVars

\* the child at position i has closed: an Error thrown in the handler is
\* caught by nothing and ends the program
onClose(i, exit) ==
    /\ pipeline.phase = "spawned"
    /\ i \in 1..Len(pipeline.chain)
    /\ pipeline.child[i] = "running"
    /\ pipeline' = IF closeHandler(exit.code, exit.signal) = "throw"
                   THEN [pipeline EXCEPT !.child[i] = "closed", !.exits[i] = exit, !.phase = "crashed"]
                   ELSE [pipeline EXCEPT !.child[i] = "closed", !.exits[i] = exit, !.resolved[i] = TRUE]
    /\ UNCHANGED programVars

\* a plausible slip: Promise.race where the code has Promise.all
PromiseAll_Race(promises) == [settled |-> \E k \in 1..Len(promises) : promises[k].settled,
                              value |-> [k \in 1..Len(promises) |-> promises[k].value]]

\* Promise.all: settled when every promise is, with the values in order
PromiseAll(promises) == [settled |-> \A k \in 1..Len(promises) : promises[k].settled,
                         value |-> [k \in 1..Len(promises) |-> promises[k].value]]

\* a plausible slip: the value of the promise pushed last, the process's own
returnedOf_Own(stdout) == stdout[Len(stdout)]

\* return stdout[0]
returnedOf(stdout) == stdout[1]

RECURSIVE spawnAsyncPromise(_, _)
\* the promise spawnAsync of the process at position i returns: the promise
\* of the next process is pushed first, the process's own after it
spawnAsyncPromise(p, i) ==
    LET promise == [settled |-> p.resolved[i], value |-> p.stdout[i]]
        promises == IF i < Len(p.chain) THEN <<spawnAsyncPromise(p, i + 1), promise>> ELSE <<promise>>
        stdout == PromiseAll(promises)
    IN  [settled |-> stdout.settled, value |-> returnedOf(stdout.value)]

\* the await of the caller of spawnAsync ends with the value returned
spawnAsyncReturns ==
    /\ pipeline.phase = "spawned"
    /\ spawnAsyncPromise(pipeline, 1).settled
    /\ pipeline' = [pipeline EXCEPT !.phase = "returned", !.value = spawnAsyncPromise(pipeline, 1).value]
    /\ UNCHANGED programVars

\* the caller goes on to its next step
callerContinues ==
    /\ pipeline.phase = "returned"
    /\ pipeline' = [pipeline EXCEPT !.phase = "next"]
    /\ UNCHANGED programVars

InitPipe == /\ filesystems = {}
            /\ snapshots = [f \in AllFilesystems |-> <<>>]
            /\ now = Epoch
            /\ storage = NoFiles
            /\ NotRunning

NextPipe == \/ \E chain \in Chains : spawnChain(chain)
            \/ \E i \in 1..MaxStages : \E data \in Chunks(i) : onData(i, data)
            \/ \E i \in 1..MaxStages : \E exit \in Exits : onClose(i, exit)
            \/ spawnAsyncReturns
            \/ callerContinues

SpecPipe == InitPipe /\ [][NextPipe]_vars

(***************************************************************************)
(* Claims on SnapshotList.findLatest (SpecFind).                           *)
(***************************************************************************)
CommonNames == Range(primarySnapshotList) \cap Range(archiveSnapshotList)

Finished == {finished[k].filesystem : k \in 1..Len(finished)}

\* the engine's view of each target of this run when its task began
TaskStarts == ({finished[k].atStart : k \in 1..Len(finished)} \cup {atStart}) \ {NoStart}

\* the transfers of this run from `primary`: the zfs send chains issued
SendsOf(primary) == {i \in 1..Len(issued) : issued[i].chain[1].cmd = "send" /\ issued[i].chain[1].fs = primary}

\* the run reported `archive` to be up to date
ReportedUpToDate(archive) == \E i \in 1..Len(printed) : printed[i] = [text |-> "Archive is Up-To-Date", name |-> archive]

\* the run before this one was a backup without the dry-run option whose task
\* on `primary` returned
FollowsBackupOf(primary) == /\ previous.subCommand = "backup"
                            /\ ~previous.dryRun
                            /\ \E k \in 1..Len(previous.finished) : previous.finished[k].filesystem = primary

\* C2: when the task of a target has returned in a backup run without the
\* dry-run option, the mirror of the target exists and holds the latest
\* snapshot of the target, which is the snapshot this run took: the latest of
\* the snapshots both hold is the latest of the primary.  This is so for each
\* target of the run, in a first run and in a run after another.
C2_ArchiveHoldsLatestOfPrimary ==
    (option.subCommand = "backup" /\ ~option.dryRun) =>
        \A primary \in Finished :
            LET mine == snapshots[primary]
                theirs == snapshots[ArchiveRoot \o primary]
                both == {i \in 1..Len(mine) : mine[i] \in Range(theirs)}
            IN  /\ (ArchiveRoot \o primary) \in filesystems
                /\ Len(mine) > 0
                /\ mine[Len(mine)] = snapshotNow
                /\ Len(mine) \in both

\* the second of two backup runs has backed up two targets
C2_Witness ==
    /\ option.subCommand = "backup"
    /\ ~option.dryRun
    /\ FollowsBackupOf(<<"pool1">>)
    /\ Finished = Pools
    /\ pc = "done"

\* C3: in a backup run without the dry-run option, for a target that had no
\* snapshot and no mirror when its task began, every transfer issued is the
\* full transfer of the snapshot this run took, there is at most one, and
\* when the task has returned there is exactly one, which succeeded.
C3_FreshBackupIsOneFullTransfer ==
    (option.subCommand = "backup" /\ ~option.dryRun) =>
        \A task \in TaskStarts :
            (task.snapshots = <<>> /\ ~task.mirror) =>
                /\ \A i \in SendsOf(task.primary) :
                      /\ issued[i].chain[1].last = Null
                      /\ issued[i].chain[1].first = snapshotNow
                      /\ issued[i].spawned = issued[i].chain
                /\ Cardinality(SendsOf(task.primary)) <= 1
                /\ task.primary \in Finished =>
                      /\ Cardinality(SendsOf(task.primary)) = 1
                      /\ \A i \in SendsOf(task.primary) : issued[i].ok

\* the task of a target without snapshot or mirror returned after one transfer
C3_Witness ==
    /\ option.subCommand = "backup"
    /\ ~option.dryRun
    /\ \E task \in TaskStarts :
          /\ task.snapshots = <<>>
          /\ ~task.mirror
          /\ task.primary \in Finished
          /\ Cardinality(SendsOf(task.primary)) = 1
          /\ snapshots[ArchiveRoot \o task.primary] = <<snapshotNow>>

\* C4 as stated: a backup run without the dry-run option whose task on a
\* target returned, after a backup run whose task on the same target returned,
\* issued no transfer from the target and reported the archive up to date.
C4_SecondBackupTransfersNothing ==
    (option.subCommand = "backup" /\ ~option.dryRun) =>
        \A primary \in Finished :
            FollowsBackupOf(primary) =>
                /\ SendsOf(primary) = {}
                /\ ReportedUpToDate(ArchiveRoot \o primary)

\* C4 as amended: such a run issued exactly one transfer from the target, the
\* incremental transfer from the snapshot that was the latest of the target
\* when the task began to the snapshot this run took, and did not report the
\* archive up to date.
C4_SecondBackupSendsNewSnapshot ==
    (option.subCommand = "backup" /\ ~option.dryRun) =>
        \A k \in 1..Len(finished) :
            LET primary == finished[k].filesystem
                before == finished[k].atStart.snapshots
            IN  FollowsBackupOf(primary) =>
                    /\ Cardinality(SendsOf(primary)) = 1
                    /\ \A i \in SendsOf(primary) :
                          /\ issued[i].chain[1].first = before[Len(before)]
                          /\ issued[i].chain[1].last = snapshotNow
                          /\ issued[i].spawned = issued[i].chain
                          /\ issued[i].ok
                    /\ ~ReportedUpToDate(ArchiveRoot \o primary)

\* a backup run returned from a target the run before it had backed up
C4_Witness ==
    /\ option.subCommand = "backup"
    /\ ~option.dryRun
    /\ \E primary \in Finished : FollowsBackupOf(primary)

\* the list of the primary as the task of `task` reads it: the snapshots it
\* held when the task began and the snapshot of this run
ListedOf(task) == Append(task.snapshots, snapshotNow)

\* the positions in that list of the names the archive held as well
CommonOf(task) == {i \in 1..Len(ListedOf(task)) : ListedOf(task)[i] \in Range(task.archive)}

MutatingCommands == {"create", "snapshot", "destroy", "send", "recv"}

\* C6: in a run with the dry-run option, no process of a mutating command is
\* spawned; every chain that holds a mutating command is walked to its last
\* stage, spawns nothing and gives the empty result; and the target at work
\* holds the snapshots it held when its task began.
C6_DryRunSpawnsNothingMutating ==
    option.dryRun =>
        /\ \A i \in 1..Len(issued) :
              /\ \A j \in 1..Len(issued[i].spawned) : issued[i].spawned[j].cmd \notin MutatingCommands
              /\ (\E j \in 1..Len(issued[i].chain) : issued[i].chain[j].cmd \in MutatingCommands) =>
                    /\ issued[i].spawned = <<>>
                    /\ issued[i].walked = Len(issued[i].chain)
                    /\ issued[i].stdout = <<>>
        /\ atStart # NoStart =>
              /\ snapshots[atStart.primary] = atStart.snapshots
              /\ (ArchiveRoot \o atStart.primary) \in filesystems <=> atStart.mirror

\* a dry-run backup returned from a target after a transfer of two stages, or
\* a dry-run purge went through a destroy, after another dry run
C6_Witness ==
    /\ option.dryRun
    /\ previous.dryRun
    /\ previous.subCommand # ""
    /\ previous.subCommand # option.subCommand
    /\ Len(finished) > 0
    /\ \E i \in 1..Len(issued) : issued[i].chain[1].cmd \in {"send", "destroy"} /\ issued[i].walked = Len(issued[i].chain)
    /\ \E i \in 1..Len(issued) : issued[i].chain[1].cmd = "snapshot"

(***************************************************************************)
(* Claims on the retention purge (SpecPurge).                              *)
(***************************************************************************)
\* the naming grammar <prefix>-<date>-<time> with the prefix of this system
MatchesGrammar(name) == name.prefix = "elephant" /\ Len(name.stamp) = 2

\* the snapshots that pass `pass` of the purge `entry` passed to destroy
DestroyedBy(entry, pass) == {entry.calls[i].snapshot : i \in {j \in 1..Len(entry.calls) : entry.calls[j].pass = pass}}

\* the destroy commands issued in this run
DestroyIssues == {i \in 1..Len(issued) : issued[i].chain[1].cmd = "destroy"}

\* C7: a snapshot whose name does not match the naming grammar is in no
\* generation bucket, is passed to destroy by none of the three passes, is
\* named by no destroy command, and is still held by the engine after the purge.
C7_PurgeSparesForeign ==
    \A k \in 1..Len(purged) : \A name \in Range(purged[k].listing) :
        ~MatchesGrammar(name) =>
            /\ name \notin Range(purged[k].generations.youngSnapshots)
            /\ name \notin Range(purged[k].generations.middleSnapshots)
            /\ name \notin Range(purged[k].generations.oldSnapshots)
            /\ \A pass \in 1..3 : name \notin DestroyedBy(purged[k], pass)
            /\ \A i \in DestroyIssues : issued[i].chain[1].first # name
            /\ name \in Range(snapshots[purged[k].filesystem])

\* a purge that destroyed snapshots in its three passes on a list that holds a
\* foreign snapshot
C7_Witness ==
    \E k \in 1..Len(purged) :
        /\ ~purged[k].dryRun
        /\ \E name \in Range(purged[k].listing) : ~MatchesGrammar(name)
        /\ \A pass \in 1..3 : DestroyedBy(purged[k], pass) # {}

\* C8: with the same current time and no snapshot added in between, the second
\* of two purges of a filesystem issues no destroy call.
C8_PurgeIsIdempotent ==
    (Len(purged) = 2 /\ ~purged[1].dryRun /\ ~purged[2].dryRun) => purged[2].calls = <<>>

\* the snapshots of `bucket` that decimation by `days` days keeps, stated on the
\* result: a snapshot is kept iff none before it is kept or its date is at or
\* after the date of the kept one before it plus the interval
IsDecimation(bucket, destroyed, days) ==
    LET kept(i) == bucket[i] \notin destroyed
        keptBefore(i) == {j \in 1..(i - 1) : kept(j)}
        keptLast(i) == CHOOSE j \in keptBefore(i) : \A h \in keptBefore(i) : h <= j
    IN  \A i \in 1..Len(bucket) :
            kept(i) <=> (keptBefore(i) = {} \/ getDate(bucket[i]) >= getDate(bucket[keptLast(i)]) + days * 24 * 60 * 60)

\* C9: the first pass keeps of the middle generation, oldest first, the first
\* snapshot and every snapshot at or after the date of the one kept before it
\* plus 1 day, the second pass the same of the old generation with 7 days, and
\* both destroy every other snapshot; of 40 middle-generation snapshots 6 hours
\* apart exactly 10 survive.
C9_DecimationKeepsOnePerInterval ==
    \A k \in 1..Len(purged) :
        /\ DestroyedBy(purged[k], 1) \subseteq Range(purged[k].generations.middleSnapshots)
        /\ DestroyedBy(purged[k], 2) \subseteq Range(purged[k].generations.oldSnapshots)
        /\ IsDecimation(purged[k].generations.middleSnapshots, DestroyedBy(purged[k], 1), 1)
        /\ IsDecimation(purged[k].generations.oldSnapshots, DestroyedBy(purged[k], 2), 7)
        /\ purged[k].listing = SixHourly =>
              /\ Len(purged[k].generations.middleSnapshots) = 40
              /\ Cardinality(DestroyedBy(purged[k], 1)) = 30
              /\ (~purged[k].dryRun /\ k = Len(purged)) => Len(snapshots[purged[k].filesystem]) = 10

\* the 40 six-hourly snapshots were purged and 10 are left
C9_Witness ==
    /\ Len(purged) = 1
    /\ purged[1].listing = SixHourly
    /\ ~purged[1].dryRun
    /\ Len(snapshots[purged[1].filesystem]) = 10

\* C10: after a purge, at most SNAPSHOT_KEEP_WEEKS snapshots of the old
\* generation are left, and the third pass destroyed the oldest of those the
\* 7-day decimation left, as many as exceeded SNAPSHOT_KEEP_WEEKS.
C10_CapKeepsNewestWeeks ==
    (Len(purged) = 1 /\ ~purged[1].dryRun) =>
        LET old == purged[1].generations.oldSnapshots
            survivors == SelectSeq(old, LAMBDA name : name \notin DestroyedBy(purged[1], 2))
            excess == Len(survivors) - 104
            left == SelectSeq(old, LAMBDA name : name \in Range(snapshots[purged[1].filesystem]))
        IN  /\ Len(left) <= 104
            /\ DestroyedBy(purged[1], 3) = {survivors[i] : i \in 1..excess}

\* C11: within one purge of a filesystem no snapshot is passed to destroy
\* twice, neither by two passes nor by repetition inside one pass.
C11_DestroyAtMostOnce ==
    \A k \in 1..Len(purged) : \A i, j \in 1..Len(purged[k].calls) :
        purged[k].calls[i].snapshot = purged[k].calls[j].snapshot => i = j

\* the names of `listing` that match the grammar and whose age at the current
\* time is at least `from` and less than `to` seconds, in the order of the listing
AgedBetween(listing, from, to) ==
    SelectSeq(listing, LAMBDA name : MatchesGrammar(name) /\ now - getDate(name) >= from /\ now - getDate(name) < to)

\* C21: the buckets of getSnapshotsByGenerations hold, in the order of the
\* list, the names of the grammar by their age: young those younger than
\* SNAPSHOT_KEEP_HOURS hours, middle those of at least that age and younger
\* than SNAPSHOT_KEEP_DAYS days, old those of at least that age; so each name
\* of the grammar is in exactly one bucket, and no other name is in any.
C21_GenerationsPartitionByAge ==
    \A k \in 1..Len(purged) :
        LET listing == purged[k].listing
            H == SNAPSHOT_KEEP_HOURS * SecondsPerHour
            D == SNAPSHOT_KEEP_DAYS * SecondsPerDay
            oldest == now + 1
        IN  /\ purged[k].generations.youngSnapshots = SelectSeq(listing, LAMBDA name : MatchesGrammar(name) /\ now - getDate(name) < H)
            /\ purged[k].generations.middleSnapshots = AgedBetween(listing, H, D)
            /\ purged[k].generations.oldSnapshots = AgedBetween(listing, D, oldest)
            /\ \A i \in 1..Len(listing) :
                  LET inYoung == listing[i] \in Range(purged[k].generations.youngSnapshots)
                      inMiddle == listing[i] \in Range(purged[k].generations.middleSnapshots)
                      inOld == listing[i] \in Range(purged[k].generations.oldSnapshots)
                  IN  /\ MatchesGrammar(listing[i]) <=> (inYoung \/ inMiddle \/ inOld)
                      /\ ~(inYoung /\ inMiddle) /\ ~(inYoung /\ inOld) /\ ~(inMiddle /\ inOld)

\* a list was bucketed that holds a snapshot exactly SNAPSHOT_KEEP_HOURS hours
\* old, one exactly SNAPSHOT_KEEP_DAYS days old and a younger one
C21_Witness ==
    \E k \in 1..Len(purged) :
        /\ createSnapshot(Age(SNAPSHOT_KEEP_HOURS * SecondsPerHour)) \in Range(purged[k].generations.middleSnapshots)
        /\ createSnapshot(Age(SNAPSHOT_KEEP_DAYS * SecondsPerDay)) \in Range(purged[k].generations.oldSnapshots)
        /\ purged[k].generations.youngSnapshots # <<>>

\* the names of `listing` that purgeSnapshots sorts into the young generation:
\* of the grammar and less than SNAPSHOT_KEEP_HOURS hours old at the current time
YoungOf(listing) == {name \in Range(listing) : MatchesGrammar(name) /\ now - getDate(name) < SNAPSHOT_KEEP_HOURS * SecondsPerHour}

\* C37: every destroy call of purgeSnapshots, in each of its three passes, and
\* every destroy command it issues names a snapshot of the list that is in the
\* middle or in the old bucket, never one of the young generation: one that is
\* at least SNAPSHOT_KEEP_HOURS hours old.
C37_PurgeSparesYoung ==
    \A k \in 1..Len(purged) :
        /\ \A i \in 1..Len(purged[k].calls) :
              LET name == purged[k].calls[i].snapshot
              IN  /\ name \in Range(purged[k].generations.middleSnapshots) \cup Range(purged[k].generations.oldSnapshots)
                  /\ name \notin YoungOf(purged[k].listing)
                  /\ now - getDate(name) >= SNAPSHOT_KEEP_HOURS * SecondsPerHour
        /\ \A i \in DestroyIssues : issued[i].chain[1].first \notin YoungOf(purged[k].listing)

\* a purge that destroyed snapshots of the middle generation on a list that
\* holds two snapshots of the young generation less than a day apart
C37_Witness ==
    \E k \in 1..Len(purged) :
        /\ ~purged[k].dryRun
        /\ DestroyedBy(purged[k], 1) # {}
        /\ DestroyIssues # {}
        /\ \E a, b \in YoungOf(purged[k].listing) : a # b

(***************************************************************************)
(* Claims on the targets of a run and on the order of its commands (Spec). *)
(***************************************************************************)
\* the positions in option.arguments of the targets the remembered list of
\* filesystems does not hold
MissingTargets == {i \in 1..Len(option.arguments) : option.arguments[i] \notin zfsFilesystemArray}

\* the run has ended
RunEnded == pc \in {"done", "crashed", "exited"}

ChecksPass(k) ==
    /\ initialized
    /\ \A j \in 1..Len(option.arguments) : option.arguments[j] = option.arguments[k] => j = k
    /\ option.arguments[k] \in zfsFilesystemArray
    /\ option.subCommand = "backup" => option.archive \in zfsFilesystemArray

\* C13: every create, snapshot, send, receive or destroy command the run has
\* spawned was spawned for a target of which the checks hold: no duplicate of
\* its name, the primary in the list, the archive in the list.
C13_ChecksBeforeMutation ==
    \A i \in 1..Len(issued) :
        (\E j \in 1..Len(issued[i].spawned) : issued[i].spawned[j].cmd \in MutatingCommands) => ChecksPass(issued[i].target)

\* the positions in `issued` of the commands `cmd` of the task of the target
\* at position k on `filesystem`
CommandsOf(k, cmd, filesystem) ==
    {i \in 1..Len(issued) : issued[i].target = k /\ issued[i].chain[1].cmd = cmd /\ issued[i].chain[1].fs = filesystem}

\* C14: in a backup run, the task of a target issues at most one take-snapshot
\* command, on the primary, and exactly one when it has returned; each query
\* of a snapshot list comes after that command; each size estimate and each
\* transfer comes after the query of the list of the primary and after the
\* query of the list of the archive.
C14_SnapshotThenListsThenTransfer ==
    option.subCommand = "backup" =>
        \A k \in 1..Len(option.arguments) :
            LET primary == option.arguments[k]
                archive == option.archive \o primary
                taken == {i \in 1..Len(issued) : issued[i].target = k /\ issued[i].chain[1].cmd = "snapshot"}
                listed == {i \in 1..Len(issued) : issued[i].target = k /\ issued[i].chain[1].cmd = "listsnap"}
                moved == {i \in 1..Len(issued) : issued[i].target = k /\ issued[i].chain[1].cmd \in {"estimate", "send"}}
            IN  /\ Cardinality(taken) <= 1
                /\ taken = CommandsOf(k, "snapshot", primary)
                /\ k <= Len(finished) => Cardinality(taken) = 1
                /\ \A i \in listed : \E t \in taken : t < i
                /\ \A i \in moved :
                      /\ \E l \in CommandsOf(k, "listsnap", primary) : l < i
                      /\ \E l \in CommandsOf(k, "listsnap", archive) : l < i
                      /\ \A l \in listed : l < i

\* a backup without the dry-run option after a backup of the same target:
\* the task took one snapshot, queried the two lists, estimated and sent
C14_Witness ==
    /\ option.subCommand = "backup"
    /\ ~option.dryRun
    /\ FollowsBackupOf(option.arguments[1])
    /\ Len(finished) >= 1
    /\ Cardinality(CommandsOf(1, "snapshot", option.arguments[1])) = 1
    /\ Cardinality(CommandsOf(1, "listsnap", option.arguments[1])) = 1
    /\ Cardinality(CommandsOf(1, "listsnap", option.archive \o option.arguments[1])) = 1
    /\ CommandsOf(1, "estimate", option.arguments[1]) # {}
    /\ CommandsOf(1, "send", option.arguments[1]) # {}

\* C15: in a backup run, the tasks return in the order of option.arguments;
\* every command belongs to a target whose predecessors' tasks have all
\* returned and names that target or its mirror; the commands of a target
\* come after all the commands of the targets before it; and when the run has
\* completed, the targets whose tasks returned are the arguments, in order.
C15_TargetsOneAtATimeInOrder ==
    option.subCommand = "backup" =>
        /\ Len(finished) <= Len(option.arguments)
        /\ \A k \in 1..Len(finished) : finished[k].filesystem = option.arguments[k]
        /\ \A i \in 1..Len(issued) :
              /\ issued[i].target <= Len(finished) + 1
              /\ issued[i].chain[1].cmd # "listfs" =>
                    issued[i].chain[1].fs \in {option.arguments[issued[i].target], option.archive \o option.arguments[issued[i].target]}
              /\ \A j \in 1..(i - 1) : issued[j].target <= issued[i].target
        /\ pc = "done" => [k \in 1..Len(finished) |-> finished[k].filesystem] = option.arguments

\* a backup of pool1 and pool2 without the dry-run option has completed, and
\* both were sent
C15_Witness ==
    /\ option.subCommand = "backup"
    /\ ~option.dryRun
    /\ pc = "done"
    /\ Len(option.arguments) = 2
    /\ option.arguments[1] # option.arguments[2]
    /\ \A k \in 1..2 : \E i \in 1..Len(issued) : issued[i].target = k /\ issued[i].chain[1].cmd = "send" /\ issued[i].ok

\* C17: in a backup run, when a transfer of a target, full or incremental,
\* has failed, the task of the target has not returned and the run has
\* ended there: the failed transfer is the last command of the run, so that
\* no estimate and no transfer of the target follows it, and its command was
\* issued once in the task.
C17_FailedTransferAbortsTask ==
    option.subCommand = "backup" =>
        \A i \in 1..Len(issued) :
            (issued[i].chain[1].cmd = "send" /\ ~issued[i].ok) =>
                /\ pc = "crashed"
                /\ index = issued[i].target
                /\ Len(finished) < issued[i].target
                /\ \A j \in (i + 1)..Len(issued) :
                      issued[j].target = issued[i].target => issued[j].chain[1].cmd \notin {"estimate", "send"}
                /\ \A j \in 1..Len(issued) :
                      (issued[j].target = issued[i].target /\ issued[j].chain = issued[i].chain) => j = i
                /\ i = Len(issued)

\* the incremental transfer of the second target failed after the first
\* target was backed up
C17_Witness ==
    /\ option.subCommand = "backup"
    /\ pc = "crashed"
    /\ Len(finished) = 1
    /\ Len(issued) > 0
    /\ issued[Len(issued)].chain[1].cmd = "send"
    /\ issued[Len(issued)].chain[1].last # Null
    /\ ~issued[Len(issued)].ok
    /\ issued[Len(issued)].target = 2

\* the positions in `issued` of the queries of the list of all filesystems
ListQueries == {i \in 1..Len(issued) : issued[i].chain[1].cmd = "listfs"}

\* C20: in a run, the list of all filesystems is asked of the engine at most
\* once; the remembered list is what that query returned, whatever the engine
\* holds by now; and exist() answers by the remembered list: in a backup the
\* task of a target that has taken its snapshot issued a create command for
\* the mirror if and only if the list that query returned does not hold the
\* mirror, even when the run itself has created the mirror since.
C20_FilesystemListQueriedOnce ==
    /\ Cardinality(ListQueries) <= 1
    /\ initialized => ListQueries # {}
    /\ \A q \in ListQueries :
          /\ initialized
          /\ zfsFilesystemArray = issued[q].stdout
          /\ \A name \in AllFilesystems \cup {Ghost} : exist(zfsFilesystemArray, name) <=> name \in issued[q].stdout
          /\ option.subCommand = "backup" =>
                \A k \in 1..Len(option.arguments) :
                    (\E t \in 1..Len(issued) : issued[t].target = k /\ issued[t].chain[1].cmd = "snapshot") =>
                        (CommandsOf(k, "create", option.archive \o option.arguments[k]) # {}
                            <=> (option.archive \o option.arguments[k]) \notin issued[q].stdout)

\* a backup names a target twice: the first task created the mirror, which
\* the engine holds, and the second task was answered that it does not exist
\* and issued the create command again
C20_Witness ==
    /\ option.subCommand = "backup"
    /\ ~option.dryRun
    /\ Cardinality(ListQueries) = 1
    /\ Len(option.arguments) = 2
    /\ (option.archive \o option.arguments[2]) \in filesystems
    /\ ~exist(zfsFilesystemArray, option.archive \o option.arguments[2])
    /\ CommandsOf(1, "create", option.archive \o option.arguments[1]) # {}
    /\ CommandsOf(2, "create", option.archive \o option.arguments[2]) # {}
    /\ option.arguments[1] = option.arguments[2]

\* C22: in a backup, when the task of a target has got its two lists, the
\* list of the primary, on which the task took a snapshot, is what the engine
\* listed with the name of the new snapshot appended as its last element
\* under the dry-run option, and what the engine listed without the option;
\* the list of the archive, on which no snapshot was taken, is what the
\* engine listed with and without the option.
C22_DryRunListEndsWithProvisional ==
    (option.subCommand = "backup" /\ pc \in {"first", "incremental"}) =>
        LET primary == option.arguments[index]
            archive == option.archive \o primary
        IN  /\ \E i \in CommandsOf(index, "listsnap", primary) :
                  /\ issued[i].stdout = snapshots[primary]
                  /\ primarySnapshotList = IF option.dryRun THEN Append(issued[i].stdout, newSnapshot) ELSE issued[i].stdout
            /\ \E i \in CommandsOf(index, "listsnap", archive) : archiveSnapshotList = issued[i].stdout
            /\ newSnapshot = snapshotNow
            /\ option.dryRun => primarySnapshotList[Len(primarySnapshotList)] = snapshotNow

\* under the dry-run option the list of a primary that holds snapshots ends
\* with the name of a snapshot the engine does not hold
C22_Witness ==
    /\ option.subCommand = "backup"
    /\ option.dryRun
    /\ pc = "incremental"
    /\ Len(primarySnapshotList) > 1
    /\ primarySnapshotList[Len(primarySnapshotList)] = snapshotNow
    /\ snapshotNow \notin Range(snapshots[option.arguments[index]])
    /\ archiveSnapshotList # <<>>

\* the engine's view of the target at position k when its task began, once the
\* task has taken its snapshot
TaskAt(k) == IF k <= Len(finished) THEN finished[k].atStart
             ELSE IF k = index /\ CommandsOf(k, "snapshot", option.arguments[k]) # {} THEN atStart
             ELSE NoStart

\* the snapshots the primary and the mirror of the task both held, the
\* snapshot the task takes counted with those of the primary
NoneInCommon(task) == Range(ListedOf(task)) \cap Range(task.archive) = {}

\* C23: in a backup, for a target that had no snapshot name in common with
\* its mirror when its task began, whether the mirror held snapshots or not,
\* the transfers of the task are a full transfer of the earliest snapshot of
\* the primary alone, and after it, only when the earliest is not the latest,
\* the transfer of the range from the earliest to the latest; when the task
\* has returned, the full transfer was made, and the range was transferred if
\* and only if the earliest differs from the latest.
C23_NoCommonSnapshotIsFirstBackup ==
    option.subCommand = "backup" =>
        \A k \in 1..Len(option.arguments) :
            (TaskAt(k) # NoStart /\ NoneInCommon(TaskAt(k))) =>
                LET listed == ListedOf(TaskAt(k))
                    earliest == listed[1]
                    latest == listed[Len(listed)]
                    sends == CommandsOf(k, "send", option.arguments[k])
                    full == {i \in sends : issued[i].chain[1].first = earliest /\ issued[i].chain[1].last = Null}
                    range == {i \in sends : issued[i].chain[1].first = earliest /\ issued[i].chain[1].last = latest}
                IN  /\ sends = full \cup range
                    /\ Cardinality(full) <= 1
                    /\ Cardinality(range) <= 1
                    /\ \A i \in range : earliest # latest /\ \E j \in full : j < i /\ issued[j].ok
                    /\ k <= Len(finished) =>
                          /\ \E i \in full : issued[i].ok
                          /\ (range # {}) <=> (earliest # latest)
                          /\ \A i \in range : issued[i].ok

\* the mirror held a snapshot of its own, the primary snapshots the mirror did
\* not hold: the task sent the earliest of the primary in full, then the range
\* up to the snapshot it took, and returned
C23_Witness ==
    /\ option.subCommand = "backup"
    /\ ~option.dryRun
    /\ Len(finished) >= 1
    /\ TaskAt(1).archive = <<Stray>>
    /\ Len(TaskAt(1).snapshots) >= 1
    /\ \E i, j \in CommandsOf(1, "send", option.arguments[1]) :
          /\ i < j
          /\ issued[i].chain[1].last = Null
          /\ issued[i].chain[1].first = TaskAt(1).snapshots[1]
          /\ issued[j].chain[1].first = TaskAt(1).snapshots[1]
          /\ issued[j].chain[1].last = snapshotNow

\* the run reported the snapshot it took on `filesystem`
ReportedTaken(filesystem) == \E i \in 1..Len(printed) : printed[i] = [text |-> "Taken the new snapshot", name |-> filesystem]

CommandsIn(issue) == {issue.chain[j].cmd : j \in 1..Len(issue.chain)}

\* the filesystems of the archive: the root and everything below it
ArchiveFilesystems == {f \in AllFilesystems : IsBelow(f, ArchiveRoot)}

\* C38: a run of the backup subcommand issues no destroy command, and each of
\* its steps leaves the list of snapshots of every primary as it was or adds
\* the snapshot of the run to the list of the target at hand, and removes no
\* primary; a run of the snapshot subcommand issues no create, send or receive
\* command, and each of its steps leaves the filesystems of the machine and
\* the snapshots of every filesystem of the archive as they were.
C38_SubcommandsKeepToTheirSide ==
    [][/\ option'.subCommand = "backup" =>
              /\ \A i \in 1..Len(issued') : "destroy" \notin CommandsIn(issued'[i])
              /\ \A primary \in Pools :
                    /\ primary \in filesystems' <=> primary \in filesystems
                    /\ \/ snapshots'[primary] = snapshots[primary]
                       \/ /\ snapshots'[primary] = Append(snapshots[primary], snapshotNow')
                          /\ index' \in 1..Len(option'.arguments)
                          /\ primary = option'.arguments[index']
       /\ option'.subCommand = "snapshot" =>
              /\ \A i \in 1..Len(issued') : CommandsIn(issued'[i]) \cap {"create", "send", "recv"} = {}
              /\ filesystems' = filesystems
              /\ \A f \in ArchiveFilesystems : snapshots'[f] = snapshots[f]]_vars

\* a run of the snapshot subcommand that took its snapshot and destroyed one on
\* pool1, after a backup that transferred snapshots to the mirror of pool1,
\* which holds them
C38_Witness ==
    /\ option.subCommand = "snapshot"
    /\ ~option.dryRun
    /\ \E i \in DestroyIssues : issued[i].spawned # <<>> /\ issued[i].ok
    /\ snapshotNow \in Range(snapshots[<<"pool1">>])
    /\ previous.subCommand = "backup"
    /\ ~previous.dryRun
    /\ previous.transfers # <<>>
    /\ previous.snapshotNow \in Range(snapshots[Mirror(<<"pool1">>)])
    /\ previous.snapshotNow \in Range(snapshots[<<"pool1">>])

\* the task of the target at position k has opened its archive: it returned,
\* or it went on to take its snapshot
Opened(k) == k <= Len(finished) \/ CommandsOf(k, "snapshot", option.arguments[k]) # {}

IsRangeTransfer(issue) == /\ issue.spawned # <<>>
                          /\ issue.chain[1].cmd = "send"
                          /\ issue.chain[1].last # Null

\* the Process run at position j of `issued` is the full transfer of
\* `snapshot` in the task of the target at position k, and it succeeded
IsFullTransferOf(j, k, snapshot) == /\ issued[j].target = k
                                    /\ issued[j].spawned # <<>>
                                    /\ issued[j].chain[1].cmd = "send"
                                    /\ issued[j].chain[1].first = snapshot
                                    /\ issued[j].chain[1].last = Null
                                    /\ issued[j].ok

\* C34: whenever a step of a backup run spawns the transfer of a range, the
\* mirror holds the first snapshot of the range in the state the step is
\* taken from, and that snapshot is either the latest snapshot the listing of
\* the primary has in common with the listing of the archive, or the earliest
\* snapshot of the primary, whose full transfer succeeded just before in the
\* same task.
C34_RangeStartsOnArchive ==
    [][\A i \in (Len(issued) + 1)..Len(issued') :
          IsRangeTransfer(issued'[i]) =>
              LET first == issued'[i].chain[1].first
                  mirror == issued'[i].chain[2].fs
              IN  /\ mirror \in filesystems
                  /\ first \in Range(snapshots[mirror])
                  /\ \/ /\ first \in Range(archiveSnapshotList)
                        /\ first \in Range(primarySnapshotList)
                        /\ \A n \in 1..Len(primarySnapshotList) :
                              primarySnapshotList[n] \in Range(archiveSnapshotList) => n <= IndexOf(primarySnapshotList, first)
                     \/ /\ first = primarySnapshotList[1]
                        /\ Len(issued) > 0
                        /\ IsFullTransferOf(Len(issued), issued'[i].target, first)]_vars

\* a backup to a mirror that held nothing sent the earliest snapshot in full
\* and then the range from it to the snapshot just taken
C34_Witness ==
    /\ option.subCommand = "backup"
    /\ \E j \in 1..Len(issued) : \E i \in (j + 1)..Len(issued) :
          /\ IsRangeTransfer(issued[i])
          /\ issued[i].ok
          /\ IsFullTransferOf(j, issued[i].target, issued[i].chain[1].first)

\* the transfers among `transfers` that the task of the target at position k called for
OfTask(transfers, k) == SelectSeq(transfers, LAMBDA t : t.target = k)

\* the run is a real backup that follows a dry run of the same backup: the
\* same targets, the same name for the new snapshot, so that the task of the
\* first target starts from the engine state the dry run found; the targets
\* are filesystems that exist, each named once, so that the checks before the
\* first task pass in both runs
FollowsItsDryRun == /\ option.subCommand = "backup"
                    /\ \A i \in 1..Len(option.arguments) : option.arguments[i] \in Pools
                    /\ duplicated(option.arguments) = {}
                    /\ ~option.dryRun
                    /\ previous.subCommand = "backup"
                    /\ previous.dryRun
                    /\ previous.arguments = option.arguments
                    /\ previous.snapshotNow = snapshotNow

\* C35: when the task of the first target of a real backup has returned, and
\* the run follows a dry run of the same backup, the task of the first target
\* of the dry run returned too and called for the same transfers - the same
\* full transfer or none, the same range or none - and found the archive up
\* to date if and only if the real one did.
C35_DryRunDecidesAsRealRun ==
    (FollowsItsDryRun /\ Len(finished) >= 1) =>
        /\ Len(previous.finished) >= 1
        /\ OfTask(previous.transfers, 1) = OfTask(transfersOf(issued), 1)
        /\ Mirror(option.arguments[1]) \in previous.upToDate <=> Mirror(option.arguments[1]) \in upToDateOf(printed)

(***************************************************************************)
(* Claims on the diff subcommand (SpecDiff).                               *)
(***************************************************************************)
\* the positions in `printed` of the lines of differences below `primary`
DifferenceLines(primary) ==
    {i \in 1..Len(printed) : printed[i].text \in {" + ", " - ", " M "} /\ IsBelow(printed[i].name, primary)}

\* the run printed the line `mark` for the path `path`
Reported(mark, path) == \E i \in 1..Len(printed) : printed[i] = Line(mark, path)

\* the comparison of the target at position k has returned after it walked
\* the directories of the target
Compared(k) == /\ k <= Len(finished)
               /\ \E i \in 1..Len(printed) : printed[i] = [text |-> "Printing the differences of", name |-> option.arguments[k]]

\* the files are those the run found: none has changed since the run began
FilesAsCompared == \A p \in Pools : storage.trees[p][Len(storage.trees[p])].since <= getDate(snapshotNow)

\* C25: in a diff run, for a target whose mirror does not exist, no command
\* of the comparison of the target fails, the program does not exit, and when
\* the comparison of the target has returned the run has reported that the
\* target is not archived yet.
C25_NotArchivedIsReportedAndRunGoesOn ==
    option.subCommand = "diff" =>
        \A k \in 1..Len(option.arguments) :
            Mirror(option.arguments[k]) \notin filesystems =>
                /\ \A i \in 1..Len(issued) : issued[i].target = k => issued[i].ok
                /\ pc # "exited"
                /\ k <= Len(finished) =>
                      \E i \in 1..Len(printed) : printed[i] = [text |-> "is not archived yet", name |-> option.arguments[k]]

\* C26: when a diff run has ended, for every target it compared and printed
\* no line of difference for, it printed that there are no differences.
C26_NoDifferenceIsSaid ==
    (option.subCommand = "diff" /\ pc = "done") =>
        \A k \in 1..Len(option.arguments) :
            (Compared(k) /\ DifferenceLines(option.arguments[k]) = {}) =>
                \E i \in 1..Len(printed) : printed[i] = [text |-> "are no differences", name |-> option.arguments[k]]

\* the entry at `path` is a regular file
IsFile(tree, path) == path \in DOMAIN tree /\ tree[path] # "dir"

\* the directory that holds `path` is a directory of the tree
ParentIsDirectory(tree, path) ==
    Len(path) = 1 \/ (SubSeq(path, 1, Len(path) - 1) \in DOMAIN tree /\ tree[SubSeq(path, 1, Len(path) - 1)] = "dir")

\* C27: when a diff run has ended and while the files stay as they are, for every target it compared and every
\* path below the target: a file of the primary that the mirror does not hold
\* is printed as added; a file both hold with different contents is printed
\* as modified; for a file both hold with the same content no line is
\* printed; an entry of the mirror alone, in a directory the primary holds, is
\* printed as removed.
C27_EveryPathIsClassified ==
    (option.subCommand = "diff" /\ pc = "done" /\ FilesAsCompared) =>
        \A k \in 1..Len(option.arguments) :
            Compared(k) =>
                LET primary == option.arguments[k]
                    one == treeOf(primary, snapshots, storage)
                    another == treeOf(Mirror(primary), snapshots, storage)
                IN  \A path \in TreePaths :
                        /\ (IsFile(one, path) /\ path \notin DOMAIN another) => Reported(" + ", primary \o path)
                        /\ (IsFile(one, path) /\ IsFile(another, path) /\ one[path] # another[path]) => Reported(" M ", primary \o path)
                        /\ (IsFile(one, path) /\ IsFile(another, path) /\ one[path] = another[path]) =>
                              \A i \in DifferenceLines(primary) : printed[i].name # primary \o path
                        /\ (path \in DOMAIN another /\ path \notin DOMAIN one /\ ParentIsDirectory(one, path)) => Reported(" - ", primary \o path)

\* the path is a file on one side and a directory on the other
TypeMismatch(one, another, path) ==
    /\ path \in DOMAIN one
    /\ path \in DOMAIN another
    /\ (one[path] = "dir") # (another[path] = "dir")

\* C28: in a diff run no call of the comparison under way is rejected, and when the run
\* has ended and while the files stay as they are, for every target it compared, every path that is a file on one
\* side and a directory on the other is printed as modified.
C28_TypeMismatchIsModified ==
    option.subCommand = "diff" =>
        /\ pc \notin Ended =>
              \A job \in comparison.jobs : ~printDifference(diskOf(filesystems, snapshots, storage), job.files, job.one, job.another).rejected
        /\ (pc = "done" /\ FilesAsCompared) =>
              \A k \in 1..Len(option.arguments) :
                  Compared(k) =>
                      LET primary == option.arguments[k]
                          one == treeOf(primary, snapshots, storage)
                          another == treeOf(Mirror(primary), snapshots, storage)
                      IN  \A path \in TreePaths : TypeMismatch(one, another, path) => Reported(" M ", primary \o path)

\* the files of the pool have not changed since its latest snapshot was taken
UnchangedSinceSnapshot(primary) ==
    /\ snapshots[primary] # <<>>
    /\ storage.trees[primary][Len(storage.trees[primary])].since <= getDate(snapshots[primary][Len(snapshots[primary])])

\* C29: in a diff run that follows a backup run without the dry-run option,
\* for every target whose backup task returned and whose files did not change
\* since, the mirror holds the files of the primary and the diff prints no
\* line of difference: none added, none removed, none modified; so it is for
\* the one target of a run and for each of two.
C29_NoDifferenceAfterBackup ==
    (option.subCommand = "diff" /\ previous.subCommand = "backup" /\ ~previous.dryRun) =>
        \A k \in 1..Len(previous.finished) :
            LET primary == previous.finished[k].filesystem
            IN  UnchangedSinceSnapshot(primary) =>
                    /\ treeOf(Mirror(primary), snapshots, storage) = treeOf(primary, snapshots, storage)
                    /\ DifferenceLines(primary) = {}
                    /\ pc \notin Ended =>
                          \A job \in comparison.jobs :
                              IsBelow(job.one, primary) => ~printDifference(diskOf(filesystems, snapshots, storage), job.files, job.one, job.another).rejected

\* after the backup of two pools that hold files, the diff of the two has
\* compared both, every call of the comparison has settled, and no line of
\* difference was printed
C29_Witness ==
    /\ option.subCommand = "diff"
    /\ previous.subCommand = "backup"
    /\ ~previous.dryRun
    /\ Len(previous.finished) = 2
    /\ pc = "done"
    /\ Compared(1)
    /\ Compared(2)
    /\ UnchangedSinceSnapshot(<<"pool1">>)
    /\ <<"x", "y">> \in DOMAIN treeOf(<<"pool1">>, snapshots, storage)
    /\ <<"w">> \in DOMAIN treeOf(<<"pool1">>, snapshots, storage)
    /\ DifferenceLines(<<"pool1">>) \cup DifferenceLines(<<"pool2">>) = {}

\* the engine holds a filesystem that is not mounted among `filesystem` and
\* the datasets below it
HoldsUnmounted(filesystem) == \E f \in filesystems : IsBelow(f, filesystem) /\ f \in storage.unmounted

\* the task of the target at position k read a directory, or was about to:
\* it printed the heading of the differences, asked for a mount point or
\* printed a line of difference
ReadDirectories(k) ==
    \/ \E i \in 1..Len(printed) : printed[i] = [text |-> "Printing the differences of", name |-> option.arguments[k]]
    \/ \E i \in 1..Len(issued) : issued[i].target = k /\ issued[i].chain[1].cmd = "mountpoint"
    \/ DifferenceLines(option.arguments[k]) # {}

\* the run warned that `filesystem` contains unmounted filesystems
Warned(filesystem) ==
    \E i \in 1..Len(printed) : /\ printed[i].name = filesystem
                               /\ printed[i].text \in {"The primary ZFS filesystem containing unmounted filesystems",
                                                       "The archive ZFS dataset containing unmounted filesystems"}

\* C32: in a diff run, the task of a target reads directories only when the
\* primary, its mirror and every dataset below either of them is mounted
\* (the "-" that zfs get prints for a snapshot does not count); when the
\* primary or the mirror holds a filesystem that is not mounted, the task
\* returns after a warning that names the side, and has read no directory.
C32_DiffOnlyWhenAllMounted ==
    option.subCommand = "diff" =>
        \A k \in 1..Len(option.arguments) :
            LET primary == option.arguments[k]
                mirror == Mirror(primary)
            IN  /\ ReadDirectories(k) => ~HoldsUnmounted(primary) /\ ~HoldsUnmounted(mirror)
                /\ (k <= Len(finished) /\ (HoldsUnmounted(primary) \/ HoldsUnmounted(mirror))) =>
                      /\ ~ReadDirectories(k)
                      /\ IF HoldsUnmounted(primary) THEN Warned(primary) ELSE Warned(mirror)

\* a diff run skipped pool1 with a warning because a dataset below its mirror
\* is not mounted, the mirror itself being mounted and holding a snapshot
C32_Witness ==
    /\ option.subCommand = "diff"
    /\ pc = "done"
    /\ Len(finished) >= 1
    /\ option.arguments[1] = <<"pool1">>
    /\ storage.unmounted = {Old}
    /\ Old \in filesystems
    /\ snapshots[Mirror(<<"pool1">>)] # <<>>
    /\ Warned(Mirror(<<"pool1">>))

\* C36: in a diff run, a step that prints a line of difference for a path
\* below a target is taken before the comparison of that target has returned:
\* no line of a target is printed once the run has gone on to the next target
\* or has left the loop over the targets.
C36_LinesBeforeTargetReturns ==
    [][option.subCommand = "diff" =>
          \A i \in (Len(printed) + 1)..Len(printed') :
              printed'[i].text \in {" + ", " - ", " M "} =>
                  \A k \in 1..Len(finished) : ~IsBelow(printed'[i].name, option.arguments[k])]_vars

(***************************************************************************)
(* Claims on the names of snapshots (SpecName)                             *)
(***************************************************************************)
\* the naming grammar <prefix>-<4-digit year>-<2-digit month>-<2-digit day>-<6-digit HHMMSS>
MatchesNamingGrammar(text) ==
    LET n == Len(PrefixCharacters)
        hyphens == {n + 1, n + 6, n + 9, n + 12}
    IN /\ Len(text) = n + 18
       /\ SubSeq(text, 1, n) = PrefixCharacters
       /\ \A i \in (n + 1)..(n + 18) : IF i \in hyphens THEN text[i] = "-" ELSE text[i] \in AsciiDigits

\* C31: constructing a Snapshot from a name that matches the naming grammar
\* succeeds and the name read back from the instance is the same string;
\* constructing one from any other name throws and leaves no instance.
C31_NameRoundTrip ==
    constructed.called =>
        IF MatchesNamingGrammar(constructed.name)
        THEN /\ ~constructed.thrown
             /\ Cardinality(constructed.instances) = 1
             /\ constructed.read \in {{}, {constructed.name}}
        ELSE /\ constructed.thrown
             /\ constructed.instances = {}
             /\ constructed.read = {}

\* a name of the grammar was constructed and read back
C31_Witness ==
    /\ constructed.called
    /\ MatchesNamingGrammar(constructed.name)
    /\ constructed.read = {constructed.name}

(***************************************************************************)
(* Claims on the reference count of the log (SpecLog)                      *)
(***************************************************************************)
\* the processes that have run createInstance and have not run destroy
Attached == {p \in Processes : logging.process[p].pc \in {"attached", "access", "create", "truncate", "open", "logging", "crashed"}}

\* no process is inside createInstance or destroy
Settled == \A p \in Processes : logging.process[p].pc \notin {"exist", "new", "add", "release", "remove"}

\* C33: whenever no process is inside createInstance or destroy, the count in
\* the reference file is the number of processes that have run createInstance
\* and not yet destroy (no file standing for zero); and while a process
\* truncates the head of the log file, no other process is attached.
C33_CountIsAttachedProcesses ==
    /\ Settled => (IF logging.reference.exist THEN logging.reference.count ELSE 0) = Cardinality(Attached)
    /\ \A p \in Processes : logging.process[p].pc = "truncate" => Attached = {p}

(***************************************************************************)
(* Claims on the chain of piped processes (SpecPipe).                      *)
(***************************************************************************)
\* the child at position i has closed with a code other than 0 or by a signal
Failed(i) == /\ pipeline.child[i] = "closed"
             /\ (pipeline.exits[i].code # 0 \/ pipeline.exits[i].signal # "")

\* the call of spawnAsync has returned to its caller
Returned == pipeline.phase \in {"returned", "next"}

\* C16: when a child of the chain has closed with a code other than 0 or by a
\* signal, the call has not returned and never returns a value, an Error was
\* thrown that ends the program, and the caller has not gone on.
C16_FailedStageNeverReturns ==
    (pipeline.phase # "none" /\ \E i \in 1..Len(pipeline.chain) : Failed(i)) =>
        /\ ~Returned
        /\ pipeline.phase = "crashed"
        /\ pipeline.value = <<>>

\* of a chain of two the last child closed with code 0 after writing, and
\* the first one was ended by a signal
C16_Witness ==
    /\ pipeline.phase = "crashed"
    /\ Len(pipeline.chain) = 2
    /\ pipeline.resolved[2]
    /\ pipeline.written[2] # <<>>
    /\ pipeline.exits[1].signal = "SIGTERM"

\* C18: when the call of spawnAsync has returned, and when its caller has
\* gone on to the next step, every child of the chain has closed.
C18_ReturnsAfterEveryStageClosed ==
    Returned => \A i \in 1..Len(pipeline.chain) : pipeline.child[i] = "closed" /\ pipeline.resolved[i]

\* the caller of a chain of two, which piped data, has gone on
C18_Witness ==
    /\ pipeline.phase = "next"
    /\ Len(pipeline.chain) = 2
    /\ pipeline.stdin[2] # <<>>
    /\ \A i \in 1..2 : pipeline.child[i] = "closed"

RECURSIVE Trimmed(_)
\* the chunks, each trimmed at its end, one after the other
Trimmed(chunks) == IF chunks = <<>> THEN <<>> ELSE trimEnd(Head(chunks)) \o Trimmed(Tail(chunks))

RECURSIVE Flat(_)
\* the chunks as they are, one after the other
Flat(chunks) == IF chunks = <<>> THEN <<>> ELSE Head(chunks) \o Flat(Tail(chunks))

\* C19: the value the call returns is the stdout captured of the last child
\* and nothing else: the chunks it wrote, each trimmed at its end, after
\* syncResult(), and the empty text otherwise; of a child that has a
\* successor nothing is captured and nothing is in the value returned, and
\* what it wrote went to the stdin of the successor, as long as that ran.
C19_ReturnsStdoutOfLastStage ==
    Returned =>
        LET n == Len(pipeline.chain)
        IN  /\ pipeline.value = IF pipeline.chain[n].syncResult THEN Trimmed(pipeline.written[n]) ELSE <<>>
            /\ pipeline.value = pipeline.stdout[n]
            /\ \A i \in 1..(n - 1) :
                  /\ pipeline.stdout[i] = <<>>
                  /\ Letters[i] \notin Range(pipeline.value)
                  /\ \E k \in 0..Len(pipeline.written[i]) : pipeline.stdin[i + 1] = Flat(SubSeq(pipeline.written[i], 1, k))

\* a chain of two has returned: the first child wrote to the second one, and
\* the second one, with syncResult(), wrote a chunk that ends in white space
C19_Witness ==
    /\ Returned
    /\ Len(pipeline.chain) = 2
    /\ pipeline.chain[2].syncResult
    /\ pipeline.stdin[2] # <<>>
    /\ pipeline.written[2] # <<>>
    /\ pipeline.value # Flat(pipeline.written[2])
    /\ pipeline.value # <<>>

(***************************************************************************)
(* Claims on the lock (SpecLock, SpecLockFair).                            *)
(***************************************************************************)
\* the callers whose promise of acquire is resolved and that have not called
\* release since
Holders == {c \in DOMAIN lock.caller : lock.caller[c].pc \in {"resolved", "holding"}}

\* the callers whose promise of acquire is pending
Waiters == {c \in DOMAIN lock.caller : lock.caller[c].pc = "waiting"}

\* C39: when only the caller that holds the lock calls release, once, at most
\* one caller holds the lock at a time, the lock is marked acquired while one
\* holds it, and no two promises of acquire are resolved without the callback
\* of a release having run in between.
C39_MutualExclusion ==
    /\ Cardinality(Holders) <= 1
    /\ Holders # {} => lock.acquired
    /\ lock.resolutions <= 1
    /\ Len(lock.timers) <= 1
    /\ (Holders # {} /\ lock.timers # <<>>) => FALSE

\* a caller holds the lock it got from a release after waiting, and two other
\* callers wait for it
C39_Witness ==
    \E c \in Holders :
        /\ lock.caller[c].pc = "holding"
        /\ lock.caller[c].waited
        /\ Cardinality(Waiters) = 2

\* C40: the callback of a release, when callers wait, resolves the promise of
\* exactly one of them, the one whose acquire call is the earliest, and leaves
\* the lock acquired, and when none waits it leaves the lock free; no other
\* step resolves the promise of a waiting caller; and, when timers and
\* continuations run and every holder releases, every caller that waits
\* comes to hold the lock.
C40_NoLostWakeUp ==
    /\ [][LET granted == {c \in Waiters : lock'.caller[c].pc = "resolved"}
              longest == {c \in Waiters : \A d \in Waiters : lock.caller[c].ticket <= lock.caller[d].ticket}
          IN  IF Len(lock'.timers) < Len(lock.timers)
              THEN /\ granted = longest
                   /\ Cardinality(granted) = (IF Waiters = {} THEN 0 ELSE 1)
                   /\ lock'.acquired <=> Waiters # {}
                   /\ \A c \in Waiters \ granted : lock'.caller[c].pc = "waiting"
              ELSE \A c \in Waiters : lock'.caller[c].pc = "waiting"]_vars
    /\ \A c \in Callers : (lock.caller[c].pc = "waiting") ~> (lock.caller[c].pc = "holding")

\* the promise of a caller that waited was resolved by a release while a
\* caller that called acquire later still waits, after the lock had been
\* free in between
C40_Witness ==
    \E c, d \in DOMAIN lock.caller :
        /\ lock.caller[c].pc = "resolved"
        /\ lock.caller[c].waited
        /\ lock.caller[d].pc = "waiting"
        /\ lock.caller[c].ticket < lock.caller[d].ticket
        /\ lock.caller[d].acquires = 2

=============================================================================
